---- MODULE Spec2Model ----
(***************************************************************************)
(* Model of the bonuspin MCP23S17 driver (src/ics/MCP23S17.h) together     *)
(* with the scoped pin holder it uses (src/libbonuspin.h).  Every public   *)
(* operation of the controller is one action; the pin writes, delays and   *)
(* SPI transfers it performs are recorded, in order, in `log`.  The other  *)
(* parts of the library (HC138, SN74HC595, HC165 of src/libbonuspin.h and  *)
(* the 23LC1024 helpers of src/ics/memory/Series_23LCxx.h) follow the      *)
(* controller, each with a specification of its own.                       *)
(***************************************************************************)
EXTENDS Integers, Sequences, FiniteSets, TLC

VARIABLES
    BusAddress,                  \* template parameter `address` (3 bits)
    ResetPin,                    \* template parameter `reset` (-1: no line)
    _registersAreSequential,     \* mirrored flag (IOCON.BANK = 0)
    _polarityIsActiveLow,        \* mirrored flag (IOCON.INTPOL = 0)
    _hardwareAddressPinsEnabled, \* mirrored flag (IOCON.HAEN = 1)
    chip,                        \* the attached chip: [regs, phase, op, addr]
    pins,                        \* level last written to each pin written so far
    modes,                       \* mode last given to each pin configured so far
    log,                         \* events of the most recent operation
    ret,                         \* value returned by the most recent operation
    lastOp,                      \* [name, arg] of the most recent operation
    before,                      \* flags, chip registers and pins when it was called
    written,                     \* last pattern given to each write accessor
                                 \* (-1: none) and the layout flag at that call
    nops                         \* number of operations performed so far

vars == <<BusAddress, ResetPin, _registersAreSequential, _polarityIsActiveLow,
          _hardwareAddressPinsEnabled, chip, pins, modes, log, ret, lastOp,
          before, written, nops>>

-----------------------------------------------------------------------------
(* Bounds of the exploration *)

MaxOps == 2

-----------------------------------------------------------------------------
(* Arduino constants and the pins of the modelled wiring *)

LOW == 0
HIGH == 1
OUTPUT == 1
NoPin == -1
ChipEnablePin == 10
WiredResetPin == 9

Bytes == 0..255

-----------------------------------------------------------------------------
(* Fixed-width bit arithmetic, as the C++ operators compute it *)

Pow2(n) == 2^n

Bit(v, i) == (v \div Pow2(i)) % 2

RECURSIVE BitAndW(_, _, _)
BitAndW(a, b, w) ==
    IF w = 0 THEN 0
    ELSE (IF a % 2 = 1 /\ b % 2 = 1 THEN 1 ELSE 0)
         + 2 * BitAndW(a \div 2, b \div 2, w - 1)

RECURSIVE BitOrW(_, _, _)
BitOrW(a, b, w) ==
    IF w = 0 THEN 0
    ELSE (IF a % 2 = 1 \/ b % 2 = 1 THEN 1 ELSE 0)
         + 2 * BitOrW(a \div 2, b \div 2, w - 1)

\* & and | on operands that fit in 16 bits, and on bytes.
BitAnd(a, b) == BitAndW(a, b, 16)
BitOr(a, b) == BitOrW(a, b, 16)
BitAnd8(a, b) == BitAndW(a, b, 8)
BitOr8(a, b) == BitOrW(a, b, 8)
ShiftLeft(a, n) == a * Pow2(n)
ShiftRight(a, n) == a \div Pow2(n)
ToByte(v) == v % 256
ToUint16(v) == v % 65536

\* F applied to the value of v: v is evaluated once, as a C++ local is.
Then(v, F(_)) == CHOOSE r \in {F(x) : x \in {v}} : TRUE

-----------------------------------------------------------------------------
(* The attached chip: a register file behind the MCP23S17 address decoder. *)
(* It watches the chip-select and reset pins and the bytes clocked to it.  *)

IOCON == 10
RegIdx == (0..21) \ {11}
ReadOnlyRegs == {14, 15, 16, 17}

PowerOnRegs == [r \in RegIdx |-> IF r \in {0, 1} THEN 255 ELSE 0]

PowerOnChip == [regs |-> PowerOnRegs, phase |-> 0, op |-> 0, addr |-> 0]

ChipBank(c) == Bit(c.regs[IOCON], 7)
ChipHaen(c) == Bit(c.regs[IOCON], 3)
ChipIntPol(c) == Bit(c.regs[IOCON], 1)

\* The logical register (as a set of at most one index) a physical address
\* selects under the chip's current BANK bit.
ChipDecode(c, a) ==
    IF ChipBank(c) = 0
    THEN IF a \in 0..21 THEN {IF a = 11 THEN IOCON ELSE a} ELSE {}
    ELSE IF a \div 16 \in {0, 1} /\ a % 16 \in 0..10
         THEN {IF a % 16 = 5 THEN IOCON ELSE 2 * (a % 16) + (a \div 16)}
         ELSE {}

\* The chip answers an opcode 0100 AAA R whose AAA matches its address pins
\* (wired as BusAddress) when HAEN is set, and 000 when it is clear.
ChipSelected(c, busAddr) ==
    /\ c.op \div 16 = 4
    /\ (c.op \div 2) % 8 = (IF ChipHaen(c) = 1 THEN busAddr ELSE 0)

\* One byte clocked to the chip while chip-select is low: <<chip', reply>>.
ChipTransfer(c, busAddr, out, float) ==
    CASE c.phase = 0 -> <<[c EXCEPT !.phase = 1, !.op = out], 0>>
      [] c.phase = 1 -> <<[c EXCEPT !.phase = 2, !.addr = out], 0>>
      [] c.phase = 2 ->
            LET hit == IF ChipSelected(c, busAddr)
                       THEN ChipDecode(c, c.addr) ELSE {}
                r == CHOOSE x \in hit : TRUE
            IN  IF hit = {} THEN <<[c EXCEPT !.phase = 3], float>>
                ELSE IF c.op % 2 = 1
                     THEN <<[c EXCEPT !.phase = 3], c.regs[r]>>
                     ELSE <<[c EXCEPT !.phase = 3,
                                      !.regs[r] = IF r \in ReadOnlyRegs
                                                  THEN @ ELSE out], 0>>
      [] OTHER -> <<c, float>>

\* Reaction of the chip to a level written on one of its control pins.
ChipPin(c, pin, level, resetPin) ==
    IF pin = ChipEnablePin
    THEN [c EXCEPT !.phase = 0, !.op = 0, !.addr = 0]
    ELSE IF pin = resetPin /\ resetPin # NoPin /\ level = LOW
         THEN PowerOnChip
         ELSE c

-----------------------------------------------------------------------------
(* Arduino primitives acting on a machine record m:                        *)
(*   [seq, pol, haen, chip, pins, modes, log, ret, bus, rst, float, nread] *)

Ev(k, a, b) == [k |-> k, a |-> a, b |-> b]

pinMode(m, pin, mode) ==
    [m EXCEPT !.modes = (pin :> mode) @@ @,
              !.log = Append(@, Ev("pinMode", pin, mode))]

digitalWrite(m, pin, level) ==
    [m EXCEPT !.pins = (pin :> level) @@ @,
              !.chip = ChipPin(@, pin, level, m.rst),
              !.log = Append(@, Ev("digitalWrite", pin, level))]

delayMicroseconds(m, us) ==
    [m EXCEPT !.log = Append(@, Ev("delayMicroseconds", us, 0))]

\* SPI.transfer(out): the reply is left in ret.
SPItransfer(m, byteOut) ==
    Then(byteOut, LAMBDA out :
    LET selected == ChipEnablePin \in DOMAIN m.pins /\ m.pins[ChipEnablePin] = LOW
        fl == m.float[m.nread + 1]
    IN  Then(IF selected THEN ChipTransfer(m.chip, m.bus, out, fl)
                         ELSE <<m.chip, fl>>,
             LAMBDA res : [m EXCEPT !.chip = res[1], !.ret = res[2],
                                    !.log = Append(@, Ev("transfer", out, res[2]))]))

-----------------------------------------------------------------------------
(* src/libbonuspin.h: DigitalPinHolder<pin, holdPinAs, restorePinTo>       *)

DigitalPinHolderCtor(m, pin, holdPinAs) == digitalWrite(m, pin, holdPinAs)
DigitalPinHolderDtorForgotten(m, pin, restorePinTo) == m

DigitalPinHolderDtor(m, pin, restorePinTo) == digitalWrite(m, pin, restorePinTo)

HoldPinLowEnter(m, pin) == DigitalPinHolderCtor(m, pin, LOW)
HoldPinLowExit(m, pin) == DigitalPinHolderDtor(m, pin, HIGH)

-----------------------------------------------------------------------------
(* src/ics/MCP23S17.h: private helpers                                     *)

hasResetPin(m) == m.rst >= 0

getSPIAddressAlwaysBus(m) == m.bus

getSPIAddress(m) == IF m.haen THEN m.bus ELSE 0

generateOpcodeRead(m) ==
    ToByte(BitOr8(BitOr8(64, ShiftLeft(getSPIAddress(m), 1)), 1))

generateOpcodeWrite(m) ==
    ToByte(BitOr8(64, ShiftLeft(getSPIAddress(m), 1)))

\* byte read(byte registerAddress): the reply of the third transfer is the
\* return value; the CSEnabler is destroyed after it has been computed.
readAddressBeforeOpcode(m, registerAddress) ==
    Then(HoldPinLowEnter(m, ChipEnablePin), LAMBDA m1 :
    Then(SPItransfer(m1, ToByte(registerAddress)), LAMBDA m2 :
    Then(SPItransfer(m2, generateOpcodeRead(m2)), LAMBDA m3 :
    Then(SPItransfer(m3, 0), LAMBDA m4 :
    Then(HoldPinLowExit(m4, ChipEnablePin), LAMBDA m5 :
         [m5 EXCEPT !.ret = m4.ret, !.nread = @ + 1])))))

read(m, registerAddress) ==
    Then(HoldPinLowEnter(m, ChipEnablePin), LAMBDA m1 :
    Then(SPItransfer(m1, generateOpcodeRead(m1)), LAMBDA m2 :
    Then(SPItransfer(m2, ToByte(registerAddress)), LAMBDA m3 :
    Then(SPItransfer(m3, 0), LAMBDA m4 :
    Then(HoldPinLowExit(m4, ChipEnablePin), LAMBDA m5 :
         [m5 EXCEPT !.ret = m4.ret, !.nread = @ + 1])))))

write(m, registerAddress, value) ==
    Then(HoldPinLowEnter(m, ChipEnablePin), LAMBDA m1 :
    Then(SPItransfer(m1, generateOpcodeWrite(m1)), LAMBDA m2 :
    Then(SPItransfer(m2, ToByte(registerAddress)), LAMBDA m3 :
    Then(SPItransfer(m3, ToByte(value)), LAMBDA m4 :
         HoldPinLowExit(m4, ChipEnablePin)))))

write16HighByteFirst(m, registerAddressA, registerAddressB, value) ==
    Then(write(m, registerAddressA, ToByte(ShiftRight(BitAnd(value, 65280), 8))),
         LAMBDA m1 : write(m1, registerAddressB, ToByte(BitAnd(value, 255))))

write16(m, registerAddressA, registerAddressB, value) ==
    Then(write(m, registerAddressA, ToByte(BitAnd(value, 255))), LAMBDA m1 :
         write(m1, registerAddressB, ToByte(ShiftRight(BitAnd(value, 65280), 8))))

\* The two operands of | are unsequenced: aFirst is the order the build chose.
read16(m, registerAddressA, registerAddressB, aFirst) ==
    Then(IF aFirst THEN read(m, registerAddressA)
                   ELSE read(m, registerAddressB), LAMBDA f :
    Then(IF aFirst THEN read(f, registerAddressB)
                   ELSE read(f, registerAddressA), LAMBDA g :
         LET lo == IF aFirst THEN f.ret ELSE g.ret
             hi == IF aFirst THEN g.ret ELSE f.ret
         IN  [g EXCEPT !.ret = ToUint16(BitOr(lo, ShiftLeft(hi, 8)))]))

registersAreSequential(m) == m.seq
registersAreInSeparateBanks(m) == ~m.seq
interruptPinsAreActiveLow(m) == m.pol
interruptPinsAreActiveHigh(m) == ~m.pol
hardwareAddressEnabled(m) == m.haen
hardwareAddressDisabled(m) == ~m.haen

chooseAddressIgnoringBank(m, seq, banked) == seq

chooseAddress(m, seq, banked) ==
    IF registersAreSequential(m) THEN seq ELSE banked

getIODIRAAddress(m) == 0
getIODIRBAddress(m) == chooseAddress(m, 1, 16)
getIOPOLAAddress(m) == chooseAddress(m, 2, 1)
getIOPOLBAddress(m) == chooseAddress(m, 3, 17)
getGPINTENAAddress(m) == chooseAddress(m, 4, 2)
getGPINTENBAddress(m) == chooseAddress(m, 5, 18)
getDEFVALAAddress(m) == chooseAddress(m, 6, 3)
getDEFVALBAddress(m) == chooseAddress(m, 7, 19)
getIntConAAddress(m) == chooseAddress(m, 8, 4)
getIntConBAddress(m) == chooseAddress(m, 9, 20)
getIOConAddress(m) == chooseAddress(m, 10, 5)
getGPPUAAddress(m) == chooseAddress(m, 12, 6)
getGPPUBAddressOfPortA(m) == chooseAddress(m, 13, 6)

getGPPUBAddress(m) == chooseAddress(m, 13, 22)
getINTFAAddress(m) == chooseAddress(m, 14, 7)
getINTFBAddress(m) == chooseAddress(m, 15, 23)
getINTCAPAAddress(m) == chooseAddress(m, 16, 8)
getINTCAPBAddress(m) == chooseAddress(m, 17, 24)
getGPIOAAddress(m) == chooseAddress(m, 18, 9)
getGPIOBAddress(m) == chooseAddress(m, 19, 25)
getOLATAAddress(m) == chooseAddress(m, 20, 10)
getOLATBAddress(m) == chooseAddress(m, 21, 26)

\* The address getters, by register name.
AddressOf(m) ==
    [IODIRA |-> getIODIRAAddress(m), IODIRB |-> getIODIRBAddress(m),
     IOPOLA |-> getIOPOLAAddress(m), IOPOLB |-> getIOPOLBAddress(m),
     GPINTENA |-> getGPINTENAAddress(m), GPINTENB |-> getGPINTENBAddress(m),
     DEFVALA |-> getDEFVALAAddress(m), DEFVALB |-> getDEFVALBAddress(m),
     INTCONA |-> getIntConAAddress(m), INTCONB |-> getIntConBAddress(m),
     IOCON |-> getIOConAddress(m),
     GPPUA |-> getGPPUAAddress(m), GPPUB |-> getGPPUBAddress(m),
     INTFA |-> getINTFAAddress(m), INTFB |-> getINTFBAddress(m),
     INTCAPA |-> getINTCAPAAddress(m), INTCAPB |-> getINTCAPBAddress(m),
     GPIOA |-> getGPIOAAddress(m), GPIOB |-> getGPIOBAddress(m),
     OLATA |-> getOLATAAddress(m), OLATB |-> getOLATBAddress(m)]

getIOCon(m) == read(m, getIOConAddress(m))

setIOConWithoutMirror(m, value) == write(m, getIOConAddress(m), value)

setIOConMirrorFirst(m, value) ==
    Then([m EXCEPT !.seq = (BitAnd8(value, 128) = 0),
                   !.pol = (BitAnd8(value, 2) = 0),
                   !.haen = (BitAnd8(value, 8) # 0)], LAMBDA m1 :
         write(m1, getIOConAddress(m1), value))

setIOCon(m, value) ==
    Then(write(m, getIOConAddress(m), value), LAMBDA m1 :
         [m1 EXCEPT !.seq = (BitAnd8(value, 128) = 0),
                    !.pol = (BitAnd8(value, 2) = 0),
                    !.haen = (BitAnd8(value, 8) # 0)])

makeRegistersSequentialKeepBit0(m) ==
    IF ~m.seq
    THEN Then(getIOCon(m), LAMBDA r : setIOCon(r, ToByte(BitAnd8(r.ret, 127))))
    ELSE m

makeRegistersSequential(m) ==
    IF ~m.seq
    THEN Then(getIOCon(m), LAMBDA r : setIOCon(r, ToByte(BitAnd8(r.ret, 126))))
    ELSE m

makeRegistersBankedUnguarded(m) ==
    Then(getIOCon(m), LAMBDA r : setIOCon(r, ToByte(BitOr8(r.ret, 128))))

makeRegistersBanked(m) ==
    IF m.seq
    THEN Then(getIOCon(m), LAMBDA r : setIOCon(r, ToByte(BitOr8(r.ret, 128))))
    ELSE m

makeInterruptOutputLinesActiveLow(m) ==
    IF ~m.pol
    THEN Then(getIOCon(m), LAMBDA r : setIOCon(r, ToByte(BitAnd8(r.ret, 124))))
    ELSE m

makeInterruptOutputLinesActiveHigh(m) ==
    IF m.pol
    THEN Then(getIOCon(m), LAMBDA r : setIOCon(r, ToByte(BitOr8(r.ret, 2))))
    ELSE m

resetWithoutDelayWhenNoPin(m) ==
    IF hasResetPin(m)
    THEN Then(HoldPinLowEnter(m, m.rst), LAMBDA m1 :
         Then(delayMicroseconds(m1, 2), LAMBDA m2 :
              HoldPinLowExit(m2, m.rst)))
    ELSE m

reset(m) ==
    IF hasResetPin(m)
    THEN Then(HoldPinLowEnter(m, m.rst), LAMBDA m1 :
         Then(delayMicroseconds(m1, 2), LAMBDA m2 :
              HoldPinLowExit(m2, m.rst)))
    ELSE delayMicroseconds(m, 2)

enableHardwareAddressPins(m) ==
    IF ~m.haen
    THEN Then(getIOCon(m), LAMBDA r : setIOCon(r, ToByte(BitOr8(r.ret, 8))))
    ELSE m

disableHardwareAddressPins(m) ==
    IF m.haen
    THEN Then(getIOCon(m), LAMBDA r : setIOCon(r, ToByte(BitAnd8(r.ret, 246))))
    ELSE m

interruptPinsAreMirroredGuarded(m) ==
    Then(getIOCon(m), LAMBDA r :
         IF Bit(r.ret, 6) = 1 THEN r
         ELSE setIOCon(r, ToByte(BitOr8(r.ret, 64))))

interruptPinsAreMirrored(m) ==
    Then(getIOCon(m), LAMBDA r : setIOCon(r, ToByte(BitOr8(r.ret, 64))))

interruptPinsAreIndependent(m) ==
    Then(getIOCon(m), LAMBDA r : setIOCon(r, ToByte(BitAnd8(r.ret, 190))))

MCP23S17WithoutIdleChipSelect(m) ==
    Then(pinMode(m, ChipEnablePin, OUTPUT), LAMBDA m1 :
         IF hasResetPin(m1)
         THEN Then(pinMode(m1, m1.rst, OUTPUT), LAMBDA m3 :
                   digitalWrite(m3, m3.rst, HIGH))
         ELSE m1)

\* The constructor MCP23S17().
MCP23S17(m) ==
    Then(pinMode(m, ChipEnablePin, OUTPUT), LAMBDA m1 :
    Then(digitalWrite(m1, ChipEnablePin, HIGH), LAMBDA m2 :
         IF hasResetPin(m2)
         THEN Then(pinMode(m2, m2.rst, OUTPUT), LAMBDA m3 :
                   digitalWrite(m3, m3.rst, HIGH))
         ELSE m2))

-----------------------------------------------------------------------------
(* src/ics/MCP23S17.h: the 16-bit accessors                                *)

readGPIOs(m, aFirst) ==
    read16(m, getGPIOAAddress(m), getGPIOBAddress(m), aFirst)

writeGPIOs(m, pattern) ==
    write16(m, getGPIOAAddress(m), getGPIOBAddress(m), pattern)

readGPIOsDirection(m, aFirst) ==
    read16(m, getIODIRAAddress(m), getIODIRBAddress(m), aFirst)

writeGPIOsDirection(m, pattern) ==
    write16(m, getIODIRAAddress(m), getIODIRBAddress(m), pattern)

readGPIOPolarity(m, aFirst) ==
    read16(m, getIOPOLAAddress(m), getIOPOLBAddress(m), aFirst)

writeGPIOPolarity(m, pattern) ==
    write16(m, getIOPOLAAddress(m), getIOPOLBAddress(m), pattern)

readGPIOInterruptEnable(m, aFirst) ==
    read16(m, getGPINTENAAddress(m), getGPINTENBAddress(m), aFirst)

writeGPIOInterruptEnable(m, pattern) ==
    write16(m, getGPINTENAAddress(m), getGPINTENBAddress(m), pattern)

readDefaultCompareRegisterForInterruptOnChange(m, aFirst) ==
    read16(m, getDEFVALAAddress(m), getDEFVALBAddress(m), aFirst)

writeDefaultCompareRegisterForInterruptOnChange(m, pattern) ==
    write16(m, getDEFVALAAddress(m), getDEFVALBAddress(m), pattern)

readInterruptOnChangeControlRegister(m, aFirst) ==
    read16(m, getIntConAAddress(m), getIntConBAddress(m), aFirst)

writeInterruptOnChangeControlRegister(m, pattern) ==
    write16(m, getIntConAAddress(m), getIntConBAddress(m), pattern)

readGPIOPullup(m, aFirst) ==
    read16(m, getGPPUAAddress(m), getGPPUBAddress(m), aFirst)

writeGPIOPullup(m, pattern) ==
    write16(m, getGPPUAAddress(m), getGPPUBAddress(m), pattern)

readGPIOInterruptFlags(m, aFirst) ==
    read16(m, getINTFAAddress(m), getINTFBAddress(m), aFirst)

readGPIOInterruptCapturedRegister(m, aFirst) ==
    read16(m, getINTCAPAAddress(m), getINTCAPBAddress(m), aFirst)

readOutputLatch(m, aFirst) ==
    read16(m, getOLATAAddress(m), getOLATBAddress(m), aFirst)

writeOutputLatchAtIOCon(m, pattern) ==
    write16(m, getIOConAddress(m), getOLATBAddress(m), pattern)

writeOutputLatch(m, pattern) ==
    write16(m, getOLATAAddress(m), getOLATBAddress(m), pattern)

-----------------------------------------------------------------------------
(* The state machine: one action per public operation                     *)

ConfigBytes == {0, 2, 8, 65, 128, 255}
Words == {4660, 43981}
\* What an undriven MISO line may read as, per read transaction of an operation.
FloatBytes == {0, 255}
NoFloat == <<0, 0>>
\* The chip answers every read of a controller whose mirror matches it, so
\* the undriven level is only drawn when the mirror does not.
MirrorMatchesChip ==
    /\ _registersAreSequential = (ChipBank(chip) = 0)
    /\ _polarityIsActiveLow = (ChipIntPol(chip) = 0)
    /\ _hardwareAddressPinsEnabled = (ChipHaen(chip) = 1)
FloatOne == IF MirrorMatchesChip THEN {NoFloat} ELSE FloatBytes \X {0}
Floats == IF MirrorMatchesChip THEN {NoFloat} ELSE FloatBytes \X FloatBytes

\* The 16-bit write accessors, and the record of a client that has not yet
\* written through any of them.
WriteAccessors ==
    {"writeGPIOs", "writeGPIOsDirection", "writeGPIOPolarity",
     "writeGPIOInterruptEnable",
     "writeDefaultCompareRegisterForInterruptOnChange",
     "writeInterruptOnChangeControlRegister", "writeGPIOPullup",
     "writeOutputLatch"}

NothingWritten == [w \in WriteAccessors |-> [value |-> -1, seq |-> TRUE]]

\* The controller, its chip and its pins as one record, before an operation.
Start(fl) ==
    [seq |-> _registersAreSequential, pol |-> _polarityIsActiveLow,
     haen |-> _hardwareAddressPinsEnabled, chip |-> chip, pins |-> pins,
     modes |-> modes, log |-> <<>>, ret |-> 0, bus |-> BusAddress,
     rst |-> ResetPin, float |-> fl, nread |-> 0]

\* The state an operation leaves behind.
Commit(m, name, arg, returns) ==
    /\ nops' = nops + 1
    /\ _registersAreSequential' = m.seq
    /\ _polarityIsActiveLow' = m.pol
    /\ _hardwareAddressPinsEnabled' = m.haen
    /\ chip' = m.chip
    /\ pins' = m.pins
    /\ modes' = m.modes
    /\ log' = m.log
    /\ ret' = (IF returns THEN m.ret ELSE 0)
    /\ lastOp' = [name |-> name, arg |-> arg]
    /\ before' = [seq |-> _registersAreSequential, pol |-> _polarityIsActiveLow,
                  haen |-> _hardwareAddressPinsEnabled, regs |-> chip.regs,
                  pins |-> pins]
    /\ written' = (IF name \in WriteAccessors
                    THEN [written EXCEPT
                            ![name] = [value |-> arg,
                                       seq |-> _registersAreSequential]]
                    ELSE written)
    /\ UNCHANGED <<BusAddress, ResetPin>>

Fresh(bus, rst) ==
    [seq |-> TRUE, pol |-> TRUE, haen |-> FALSE, chip |-> PowerOnChip,
     pins |-> << >>, modes |-> << >>, log |-> << >>, ret |-> 0, bus |-> bus,
     rst |-> rst, float |-> <<0, 0>>, nread |-> 0]

\* The state right after construction, for the given template arguments.
Constructed(bus, rst) ==
    \E m0 \in {Fresh(bus, rst)} : \E m \in {MCP23S17(m0)} :
        /\ BusAddress = bus
        /\ ResetPin = rst
        /\ _registersAreSequential = m.seq
        /\ _polarityIsActiveLow = m.pol
        /\ _hardwareAddressPinsEnabled = m.haen
        /\ chip = m.chip
        /\ pins = m.pins
        /\ modes = m.modes
        /\ log = m.log
        /\ ret = 0
        /\ lastOp = [name |-> "MCP23S17", arg |-> 0]
        /\ before = [seq |-> TRUE, pol |-> TRUE, haen |-> FALSE,
                     regs |-> PowerOnRegs, pins |-> << >>]
        /\ written = NothingWritten
        /\ nops = 0

BusAddresses == {0, 5}

Init ==
    \E bus \in BusAddresses, rst \in {NoPin, WiredResetPin} : Constructed(bus, rst)

InitConfig ==
    \E bus \in 0..7 : Constructed(bus, NoPin)

CallGetIOCon ==
    /\ nops < MaxOps
    /\ \E fl \in FloatOne : \E m0 \in {Start(fl)} : \E m \in {getIOCon(m0)} :
               Commit(m, "getIOCon", 0, TRUE)

CallSetIOCon ==
    /\ nops < MaxOps
    /\ \E v \in ConfigBytes :
           \E m0 \in {Start(NoFloat)} : \E m \in {setIOCon(m0, v)} :
               Commit(m, "setIOCon", v, FALSE)

\* setIOCon with an arbitrary byte, as the first operation of a run.
CallSetIOConAny ==
    /\ nops < MaxOps
    /\ \E v \in Bytes :
           /\ nops = 0
           /\ \E m0 \in {Start(NoFloat)} : \E m \in {setIOCon(m0, v)} :
               Commit(m, "setIOCon", v, FALSE)

CallMakeRegistersSequential ==
    /\ nops < MaxOps
    /\ \E fl \in FloatOne : \E m0 \in {Start(fl)} : \E m \in {makeRegistersSequential(m0)} :
               Commit(m, "makeRegistersSequential", 0, FALSE)

CallMakeRegistersBanked ==
    /\ nops < MaxOps
    /\ \E fl \in FloatOne : \E m0 \in {Start(fl)} : \E m \in {makeRegistersBanked(m0)} :
               Commit(m, "makeRegistersBanked", 0, FALSE)

CallMakeInterruptOutputLinesActiveLow ==
    /\ nops < MaxOps
    /\ \E fl \in FloatOne : \E m0 \in {Start(fl)} : \E m \in {makeInterruptOutputLinesActiveLow(m0)} :
               Commit(m, "makeInterruptOutputLinesActiveLow", 0, FALSE)

CallMakeInterruptOutputLinesActiveHigh ==
    /\ nops < MaxOps
    /\ \E fl \in FloatOne : \E m0 \in {Start(fl)} : \E m \in {makeInterruptOutputLinesActiveHigh(m0)} :
               Commit(m, "makeInterruptOutputLinesActiveHigh", 0, FALSE)

CallEnableHardwareAddressPins ==
    /\ nops < MaxOps
    /\ \E fl \in FloatOne : \E m0 \in {Start(fl)} : \E m \in {enableHardwareAddressPins(m0)} :
               Commit(m, "enableHardwareAddressPins", 0, FALSE)

CallDisableHardwareAddressPins ==
    /\ nops < MaxOps
    /\ \E fl \in FloatOne : \E m0 \in {Start(fl)} : \E m \in {disableHardwareAddressPins(m0)} :
               Commit(m, "disableHardwareAddressPins", 0, FALSE)

CallInterruptPinsAreMirrored ==
    /\ nops < MaxOps
    /\ \E fl \in FloatOne : \E m0 \in {Start(fl)} : \E m \in {interruptPinsAreMirrored(m0)} :
               Commit(m, "interruptPinsAreMirrored", 0, FALSE)

CallInterruptPinsAreIndependent ==
    /\ nops < MaxOps
    /\ \E fl \in FloatOne : \E m0 \in {Start(fl)} : \E m \in {interruptPinsAreIndependent(m0)} :
               Commit(m, "interruptPinsAreIndependent", 0, FALSE)

CallReset ==
    /\ nops < MaxOps
    /\ \E m0 \in {Start(NoFloat)} : \E m \in {reset(m0)} :
               Commit(m, "reset", 0, FALSE)

CallReadGPIOs ==
    /\ nops < MaxOps
    /\ \E fl \in Floats, aFirst \in BOOLEAN :
           \E m0 \in {Start(fl)} : \E m \in {readGPIOs(m0, aFirst)} :
               Commit(m, "readGPIOs", 0, TRUE)

CallWriteGPIOs ==
    /\ nops < MaxOps
    /\ \E pattern \in Words :
           \E m0 \in {Start(NoFloat)} : \E m \in {writeGPIOs(m0, pattern)} :
               Commit(m, "writeGPIOs", pattern, FALSE)

CallReadGPIOsDirection ==
    /\ nops < MaxOps
    /\ \E fl \in Floats, aFirst \in BOOLEAN :
           \E m0 \in {Start(fl)} : \E m \in {readGPIOsDirection(m0, aFirst)} :
               Commit(m, "readGPIOsDirection", 0, TRUE)

CallWriteGPIOsDirection ==
    /\ nops < MaxOps
    /\ \E pattern \in Words :
           \E m0 \in {Start(NoFloat)} : \E m \in {writeGPIOsDirection(m0, pattern)} :
               Commit(m, "writeGPIOsDirection", pattern, FALSE)

CallReadGPIOPolarity ==
    /\ nops < MaxOps
    /\ \E fl \in Floats, aFirst \in BOOLEAN :
           \E m0 \in {Start(fl)} : \E m \in {readGPIOPolarity(m0, aFirst)} :
               Commit(m, "readGPIOPolarity", 0, TRUE)

CallWriteGPIOPolarity ==
    /\ nops < MaxOps
    /\ \E pattern \in Words :
           \E m0 \in {Start(NoFloat)} : \E m \in {writeGPIOPolarity(m0, pattern)} :
               Commit(m, "writeGPIOPolarity", pattern, FALSE)

CallReadGPIOInterruptEnable ==
    /\ nops < MaxOps
    /\ \E fl \in Floats, aFirst \in BOOLEAN :
           \E m0 \in {Start(fl)} : \E m \in {readGPIOInterruptEnable(m0, aFirst)} :
               Commit(m, "readGPIOInterruptEnable", 0, TRUE)

CallWriteGPIOInterruptEnable ==
    /\ nops < MaxOps
    /\ \E pattern \in Words :
           \E m0 \in {Start(NoFloat)} : \E m \in {writeGPIOInterruptEnable(m0, pattern)} :
               Commit(m, "writeGPIOInterruptEnable", pattern, FALSE)

CallReadDefaultCompareRegisterForInterruptOnChange ==
    /\ nops < MaxOps
    /\ \E fl \in Floats, aFirst \in BOOLEAN :
           \E m0 \in {Start(fl)} : \E m \in {readDefaultCompareRegisterForInterruptOnChange(m0, aFirst)} :
               Commit(m, "readDefaultCompareRegisterForInterruptOnChange", 0, TRUE)

CallWriteDefaultCompareRegisterForInterruptOnChange ==
    /\ nops < MaxOps
    /\ \E pattern \in Words :
           \E m0 \in {Start(NoFloat)} : \E m \in {writeDefaultCompareRegisterForInterruptOnChange(m0, pattern)} :
               Commit(m, "writeDefaultCompareRegisterForInterruptOnChange", pattern, FALSE)

CallReadInterruptOnChangeControlRegister ==
    /\ nops < MaxOps
    /\ \E fl \in Floats, aFirst \in BOOLEAN :
           \E m0 \in {Start(fl)} : \E m \in {readInterruptOnChangeControlRegister(m0, aFirst)} :
               Commit(m, "readInterruptOnChangeControlRegister", 0, TRUE)

CallWriteInterruptOnChangeControlRegister ==
    /\ nops < MaxOps
    /\ \E pattern \in Words :
           \E m0 \in {Start(NoFloat)} : \E m \in {writeInterruptOnChangeControlRegister(m0, pattern)} :
               Commit(m, "writeInterruptOnChangeControlRegister", pattern, FALSE)

CallReadGPIOPullup ==
    /\ nops < MaxOps
    /\ \E fl \in Floats, aFirst \in BOOLEAN :
           \E m0 \in {Start(fl)} : \E m \in {readGPIOPullup(m0, aFirst)} :
               Commit(m, "readGPIOPullup", 0, TRUE)

CallWriteGPIOPullup ==
    /\ nops < MaxOps
    /\ \E pattern \in Words :
           \E m0 \in {Start(NoFloat)} : \E m \in {writeGPIOPullup(m0, pattern)} :
               Commit(m, "writeGPIOPullup", pattern, FALSE)

CallReadGPIOInterruptFlags ==
    /\ nops < MaxOps
    /\ \E fl \in Floats, aFirst \in BOOLEAN :
           \E m0 \in {Start(fl)} : \E m \in {readGPIOInterruptFlags(m0, aFirst)} :
               Commit(m, "readGPIOInterruptFlags", 0, TRUE)

CallReadGPIOInterruptCapturedRegister ==
    /\ nops < MaxOps
    /\ \E fl \in Floats, aFirst \in BOOLEAN :
           \E m0 \in {Start(fl)} : \E m \in {readGPIOInterruptCapturedRegister(m0, aFirst)} :
               Commit(m, "readGPIOInterruptCapturedRegister", 0, TRUE)

CallReadOutputLatch ==
    /\ nops < MaxOps
    /\ \E fl \in Floats, aFirst \in BOOLEAN :
           \E m0 \in {Start(fl)} : \E m \in {readOutputLatch(m0, aFirst)} :
               Commit(m, "readOutputLatch", 0, TRUE)

CallWriteOutputLatch ==
    /\ nops < MaxOps
    /\ \E pattern \in Words :
           \E m0 \in {Start(NoFloat)} : \E m \in {writeOutputLatch(m0, pattern)} :
               Commit(m, "writeOutputLatch", pattern, FALSE)

Next ==
    \/ CallGetIOCon
    \/ CallSetIOCon
    \/ CallMakeRegistersSequential
    \/ CallMakeRegistersBanked
    \/ CallMakeInterruptOutputLinesActiveLow
    \/ CallMakeInterruptOutputLinesActiveHigh
    \/ CallEnableHardwareAddressPins
    \/ CallDisableHardwareAddressPins
    \/ CallInterruptPinsAreMirrored
    \/ CallInterruptPinsAreIndependent
    \/ CallReset
    \/ CallReadGPIOs
    \/ CallWriteGPIOs
    \/ CallReadGPIOsDirection
    \/ CallWriteGPIOsDirection
    \/ CallReadGPIOPolarity
    \/ CallWriteGPIOPolarity
    \/ CallReadGPIOInterruptEnable
    \/ CallWriteGPIOInterruptEnable
    \/ CallReadDefaultCompareRegisterForInterruptOnChange
    \/ CallWriteDefaultCompareRegisterForInterruptOnChange
    \/ CallReadInterruptOnChangeControlRegister
    \/ CallWriteInterruptOnChangeControlRegister
    \/ CallReadGPIOPullup
    \/ CallWriteGPIOPullup
    \/ CallReadGPIOInterruptFlags
    \/ CallReadGPIOInterruptCapturedRegister
    \/ CallReadOutputLatch
    \/ CallWriteOutputLatch

Spec == Init /\ [][Next]_vars

\* Runs that only exercise the configuration register, over every bus
\* address and every configuration byte.
NextConfig ==
    \/ CallGetIOCon
    \/ CallSetIOCon
    \/ CallSetIOConAny
    \/ CallMakeRegistersSequential
    \/ CallMakeRegistersBanked
    \/ CallMakeInterruptOutputLinesActiveLow
    \/ CallMakeInterruptOutputLinesActiveHigh
    \/ CallEnableHardwareAddressPins
    \/ CallDisableHardwareAddressPins
    \/ CallInterruptPinsAreMirrored
    \/ CallInterruptPinsAreIndependent

SpecConfig == InitConfig /\ [][NextConfig]_vars

-----------------------------------------------------------------------------
(* A client that writes one register pair, switches between the two        *)
(* address layouts at will, and finally reads a register pair back.        *)

MaxSwitches == 2

ReadAccessors ==
    {"readGPIOs", "readGPIOsDirection", "readGPIOPolarity",
     "readGPIOInterruptEnable",
     "readDefaultCompareRegisterForInterruptOnChange",
     "readInterruptOnChangeControlRegister", "readGPIOPullup",
     "readGPIOInterruptFlags", "readGPIOInterruptCapturedRegister",
     "readOutputLatch"}

\* The write accessor of the given name, applied to m.
ApplyWriteAccessor(name, m, pattern) ==
    CASE name = "writeGPIOs" -> writeGPIOs(m, pattern)
      [] name = "writeGPIOsDirection" -> writeGPIOsDirection(m, pattern)
      [] name = "writeGPIOPolarity" -> writeGPIOPolarity(m, pattern)
      [] name = "writeGPIOInterruptEnable" -> writeGPIOInterruptEnable(m, pattern)
      [] name = "writeDefaultCompareRegisterForInterruptOnChange" ->
            writeDefaultCompareRegisterForInterruptOnChange(m, pattern)
      [] name = "writeInterruptOnChangeControlRegister" ->
            writeInterruptOnChangeControlRegister(m, pattern)
      [] name = "writeGPIOPullup" -> writeGPIOPullup(m, pattern)
      [] name = "writeOutputLatch" -> writeOutputLatch(m, pattern)

\* The read accessor of the given name, applied to m.
ApplyReadAccessor(name, m, aFirst) ==
    CASE name = "readGPIOs" -> readGPIOs(m, aFirst)
      [] name = "readGPIOsDirection" -> readGPIOsDirection(m, aFirst)
      [] name = "readGPIOPolarity" -> readGPIOPolarity(m, aFirst)
      [] name = "readGPIOInterruptEnable" -> readGPIOInterruptEnable(m, aFirst)
      [] name = "readDefaultCompareRegisterForInterruptOnChange" ->
            readDefaultCompareRegisterForInterruptOnChange(m, aFirst)
      [] name = "readInterruptOnChangeControlRegister" ->
            readInterruptOnChangeControlRegister(m, aFirst)
      [] name = "readGPIOPullup" -> readGPIOPullup(m, aFirst)
      [] name = "readGPIOInterruptFlags" -> readGPIOInterruptFlags(m, aFirst)
      [] name = "readGPIOInterruptCapturedRegister" ->
            readGPIOInterruptCapturedRegister(m, aFirst)
      [] name = "readOutputLatch" -> readOutputLatch(m, aFirst)

HasWritten == written # NothingWritten
HasRead == lastOp.name \in ReadAccessors
SwitchesSoFar == nops - (IF HasWritten THEN 1 ELSE 0)

InitBank == \E bus \in BusAddresses : Constructed(bus, NoPin)

BankWrite ==
    /\ ~HasWritten /\ ~HasRead
    /\ \E w \in WriteAccessors, pattern \in Words :
           \E m0 \in {Start(NoFloat)} : \E m \in {ApplyWriteAccessor(w, m0, pattern)} :
               Commit(m, w, pattern, FALSE)

BankSwitchToBanked ==
    /\ ~HasRead /\ SwitchesSoFar < MaxSwitches
    /\ \E fl \in FloatOne : \E m0 \in {Start(fl)} : \E m \in {makeRegistersBanked(m0)} :
               Commit(m, "makeRegistersBanked", 0, FALSE)

BankSwitchToSequential ==
    /\ ~HasRead /\ SwitchesSoFar < MaxSwitches
    /\ \E fl \in FloatOne : \E m0 \in {Start(fl)} : \E m \in {makeRegistersSequential(m0)} :
               Commit(m, "makeRegistersSequential", 0, FALSE)

BankRead ==
    /\ HasWritten /\ ~HasRead
    /\ \E r \in ReadAccessors, fl \in Floats, aFirst \in BOOLEAN :
           \E m0 \in {Start(fl)} : \E m \in {ApplyReadAccessor(r, m0, aFirst)} :
               Commit(m, r, 0, TRUE)

NextBank ==
    \/ BankWrite
    \/ BankSwitchToBanked
    \/ BankSwitchToSequential
    \/ BankRead

SpecBank == InitBank /\ [][NextBank]_vars

-----------------------------------------------------------------------------
(* Reading the log of an operation                                         *)

IsCsWrite(e, level) ==
    e.k = "digitalWrite" /\ e.a = ChipEnablePin /\ e.b = level

\* The level of chip-select after the first i events of l, HIGH before them.
RECURSIVE CsLevelAfter(_, _)
CsLevelAfter(l, i) ==
    IF i = 0 THEN HIGH
    ELSE IF l[i].k = "digitalWrite" /\ l[i].a = ChipEnablePin THEN l[i].b
         ELSE CsLevelAfter(l, i - 1)

\* The k-th group of five events of l, read as one byte transaction.
Tx(l, k) ==
    [opcode |-> l[5 * k - 3].a, addr |-> l[5 * k - 2].a,
     data |-> l[5 * k - 1].a, reply |-> l[5 * k - 1].b]

IsTxAt(l, k) ==
    /\ IsCsWrite(l[5 * k - 4], LOW)
    /\ \A j \in 1..3 : l[5 * k - 4 + j].k = "transfer"
    /\ IsCsWrite(l[5 * k], HIGH)

NTx(l) == Len(l) \div 5

TxShaped(l) ==
    /\ Len(l) % 5 = 0
    /\ \A k \in 1..NTx(l) : IsTxAt(l, k)

\* The controller as it is now.
Now == Start(NoFloat)

\* The register table of the MCP23S17 interface: <<sequential, banked>>.
RegisterTable ==
    [IODIRA |-> <<0, 0>>, IODIRB |-> <<1, 16>>,
     IOPOLA |-> <<2, 1>>, IOPOLB |-> <<3, 17>>,
     GPINTENA |-> <<4, 2>>, GPINTENB |-> <<5, 18>>,
     DEFVALA |-> <<6, 3>>, DEFVALB |-> <<7, 19>>,
     INTCONA |-> <<8, 4>>, INTCONB |-> <<9, 20>>,
     IOCON |-> <<10, 5>>,
     GPPUA |-> <<12, 6>>, GPPUB |-> <<13, 22>>,
     INTFA |-> <<14, 7>>, INTFB |-> <<15, 23>>,
     INTCAPA |-> <<16, 8>>, INTCAPB |-> <<17, 24>>,
     GPIOA |-> <<18, 9>>, GPIOB |-> <<19, 25>>,
     OLATA |-> <<20, 10>>, OLATB |-> <<21, 26>>]

TableAddress(r, sequential) == RegisterTable[r][IF sequential THEN 1 ELSE 2]

-----------------------------------------------------------------------------
(* C1: for every logical register, the address getter returns the          *)
(* Sequential column of the register table when registersAreSequential()   *)
(* is true and the Banked column when it is false.                         *)
C1_AddressGettersMatchTable ==
    \A r \in DOMAIN RegisterTable :
        AddressOf(Now)[r] = TableAddress(r, registersAreSequential(Now))

\* A banked controller has just read the output latch at 0x0A and 0x1A.
C1_Witness ==
    /\ ~_registersAreSequential
    /\ lastOp.name = "readOutputLatch"
    /\ TxShaped(log) /\ NTx(log) = 2
    /\ {Tx(log, 1).addr, Tx(log, 2).addr} = {10, 26}

-----------------------------------------------------------------------------
(* C2: after any sequence of public operations on a controller attached to *)
(* a chip that started in its power-on state, the three mirrored flags     *)
(* equal bits 7, 1 and 3 of the chip's configuration register:             *)
(* sequential iff bit 7 is 0, active-low iff bit 1 is 0, hardware address  *)
(* enabled iff bit 3 is 1.                                                 *)
C2_MirrorMatchesChip ==
    /\ registersAreSequential(Now) = (ChipBank(chip) = 0)
    /\ interruptPinsAreActiveLow(Now) = (ChipIntPol(chip) = 0)
    /\ hardwareAddressEnabled(Now) = (ChipHaen(chip) = 1)

-----------------------------------------------------------------------------
(* C3: after setIOCon(v), for every byte v and whatever the flags were     *)
(* before, registersAreSequential() is true iff bit 7 of v is 0 (and       *)
(* registersAreInSeparateBanks() is its negation),                         *)
(* interruptPinsAreActiveLow() is true iff bit 1 of v is 0, and            *)
(* hardwareAddressEnabled() is true iff bit 3 of v is 1.                   *)
C3_SetIOConMirrorsBits ==
    lastOp.name = "setIOCon" =>
        /\ registersAreSequential(Now) = (Bit(lastOp.arg, 7) = 0)
        /\ registersAreInSeparateBanks(Now) = (Bit(lastOp.arg, 7) = 1)
        /\ interruptPinsAreActiveLow(Now) = (Bit(lastOp.arg, 1) = 0)
        /\ hardwareAddressEnabled(Now) = (Bit(lastOp.arg, 3) = 1)

\* setIOCon(0x00) has turned a banked, active-high, hardware-addressed
\* controller back into the default modes.
C3_Witness ==
    /\ lastOp.name = "setIOCon" /\ lastOp.arg = 0
    /\ ~before.seq /\ ~before.pol /\ before.haen
    /\ _registersAreSequential /\ _polarityIsActiveLow
    /\ ~_hardwareAddressPinsEnabled


-----------------------------------------------------------------------------
(* The operations by what they put on the bus                              *)

GuardedToggles ==
    {"makeRegistersSequential", "makeRegistersBanked",
     "makeInterruptOutputLinesActiveLow", "makeInterruptOutputLinesActiveHigh",
     "enableHardwareAddressPins", "disableHardwareAddressPins"}

MirroringToggles == {"interruptPinsAreMirrored", "interruptPinsAreIndependent"}

\* Whether the k-th byte transaction of operation name is a read.
IsReadTx(name, k) ==
    IF name \in GuardedToggles \cup MirroringToggles THEN k = 1
    ELSE name \in ReadAccessors \cup {"getIOCon"}

\* The flags as they were when the operation was called.
FlagsUnchanged ==
    /\ _registersAreSequential = before.seq
    /\ _polarityIsActiveLow = before.pol
    /\ _hardwareAddressPinsEnabled = before.haen

-----------------------------------------------------------------------------
(* C4: the opcode byte of every transaction is 0b0100_AAA_R, where AAA is  *)
(* busAddress when hardwareAddressEnabled() is true and 000 otherwise, and *)
(* R is 1 for a read and 0 for a write; the read opcode is the write       *)
(* opcode with bit 0 set, and with hardware addressing disabled the        *)
(* opcodes are 0x41 and 0x40 whatever busAddress is.                       *)
C4_OpcodeFormat ==
    /\ lastOp.name # "MCP23S17" =>
          /\ TxShaped(log)
          /\ \A k \in 1..NTx(log) :
                LET op == Tx(log, k).opcode
                IN  /\ op \div 16 = 4
                    /\ (op \div 2) % 8 = (IF before.haen THEN BusAddress ELSE 0)
                    /\ op % 2 = (IF IsReadTx(lastOp.name, k) THEN 1 ELSE 0)
                    /\ ~before.haen => op \in {64, 65}
    /\ generateOpcodeRead(Now) = generateOpcodeWrite(Now) + 1
    /\ generateOpcodeWrite(Now) % 2 = 0
    /\ ~hardwareAddressEnabled(Now) =>
          generateOpcodeRead(Now) = 65 /\ generateOpcodeWrite(Now) = 64

\* A controller at bus address 7 with hardware addressing enabled has read
\* the configuration register with opcode 0x4F and written it with 0x4E.
C4_Witness ==
    /\ BusAddress = 7 /\ before.haen
    /\ lastOp.name = "interruptPinsAreMirrored"
    /\ TxShaped(log) /\ NTx(log) = 2
    /\ Tx(log, 1).opcode = 79 /\ Tx(log, 2).opcode = 78

-----------------------------------------------------------------------------
\* A guarded toggle was called with its mode already shown by the flag.
AlreadyInMode ==
    \/ lastOp.name = "makeRegistersSequential" /\ before.seq
    \/ lastOp.name = "makeRegistersBanked" /\ ~before.seq
    \/ lastOp.name = "makeInterruptOutputLinesActiveLow" /\ before.pol
    \/ lastOp.name = "makeInterruptOutputLinesActiveHigh" /\ ~before.pol
    \/ lastOp.name = "enableHardwareAddressPins" /\ before.haen
    \/ lastOp.name = "disableHardwareAddressPins" /\ ~before.haen

(* C5: a guarded mode toggle called when the mirrored flag already shows   *)
(* the requested mode issues no SPI transfer, never writes chip-select and *)
(* leaves the three mirrored flags unchanged.                              *)
C5_GuardedToggleIsNoOp ==
    AlreadyInMode =>
        /\ log = << >>
        /\ FlagsUnchanged
        /\ chip.regs = before.regs

\* makeRegistersBanked() has been called on a banked controller.
C5_Witness ==
    /\ lastOp.name = "makeRegistersBanked" /\ ~before.seq
    /\ log = << >> /\ ~_registersAreSequential

-----------------------------------------------------------------------------
(* C6 as stated: makeRegistersSequential() called while banked issues      *)
(* exactly one configuration-register write, whose value is the byte it    *)
(* just read with bit 7 cleared and bits 0-6 preserved.                    *)
C6_WritesReadByteWithOnlyBit7Cleared ==
    lastOp.name = "makeRegistersSequential" /\ ~before.seq =>
        /\ TxShaped(log) /\ NTx(log) = 2
        /\ Tx(log, 2).opcode % 2 = 0
        /\ Tx(log, 2).addr = TableAddress("IOCON", FALSE)
        /\ Bit(Tx(log, 2).data, 7) = 0
        /\ \A i \in 0..6 : Bit(Tx(log, 2).data, i) = Bit(Tx(log, 1).reply, i)

(* C6 as amended: makeRegistersSequential() called while banked issues     *)
(* exactly one write, to the banked configuration address 0x05, whose      *)
(* value is the byte it just read with bits 7 and 0 cleared and bits 1-6   *)
(* preserved.                                                              *)
C6_WritesReadByteWithBits7And0Cleared ==
    lastOp.name = "makeRegistersSequential" /\ ~before.seq =>
        /\ TxShaped(log) /\ NTx(log) = 2
        /\ Tx(log, 1).opcode % 2 = 1
        /\ Tx(log, 1).addr = TableAddress("IOCON", FALSE)
        /\ Tx(log, 2).opcode % 2 = 0
        /\ Tx(log, 2).addr = TableAddress("IOCON", FALSE)
        /\ Bit(Tx(log, 2).data, 7) = 0
        /\ Bit(Tx(log, 2).data, 0) = 0
        /\ \A i \in 1..6 : Bit(Tx(log, 2).data, i) = Bit(Tx(log, 1).reply, i)

\* makeRegistersSequential() has read 0xFF from a banked chip and written
\* 0x7E back.
C6_Witness ==
    /\ lastOp.name = "makeRegistersSequential" /\ ~before.seq
    /\ TxShaped(log) /\ NTx(log) = 2
    /\ Tx(log, 1).reply = 255 /\ Tx(log, 2).data = 126
    /\ chip.regs[IOCON] = 126

-----------------------------------------------------------------------------
(* C7: interruptPinsAreMirrored() and interruptPinsAreIndependent() are    *)
(* unguarded: every call performs exactly one read of the configuration    *)
(* register followed by exactly one write of it through setIOCon, even     *)
(* when bit 6 already has the requested value.                             *)
C7_MirroringTogglesAlwaysWrite ==
    lastOp.name \in MirroringToggles =>
        /\ TxShaped(log) /\ NTx(log) = 2
        /\ Tx(log, 1).opcode % 2 = 1
        /\ Tx(log, 1).addr = TableAddress("IOCON", before.seq)
        /\ Tx(log, 1).data = 0
        /\ Tx(log, 2).opcode % 2 = 0
        /\ Tx(log, 2).addr = TableAddress("IOCON", before.seq)
        /\ Tx(log, 2).data =
              (IF lastOp.name = "interruptPinsAreMirrored"
               THEN Tx(log, 1).reply + (IF Bit(Tx(log, 1).reply, 6) = 1 THEN 0 ELSE 64)
               ELSE Tx(log, 1).reply
                      - (IF Bit(Tx(log, 1).reply, 6) = 1 THEN 64 ELSE 0)
                      - (IF Bit(Tx(log, 1).reply, 0) = 1 THEN 1 ELSE 0))
        /\ _registersAreSequential = (Bit(Tx(log, 2).data, 7) = 0)
        /\ _polarityIsActiveLow = (Bit(Tx(log, 2).data, 1) = 0)
        /\ _hardwareAddressPinsEnabled = (Bit(Tx(log, 2).data, 3) = 1)

\* interruptPinsAreMirrored() has been called on a chip whose MIRROR bit was
\* already set, and has read and rewritten the configuration register.
C7_Witness ==
    /\ lastOp.name = "interruptPinsAreMirrored"
    /\ Bit(before.regs[IOCON], 6) = 1
    /\ TxShaped(log) /\ NTx(log) = 2
    /\ Tx(log, 2).data = before.regs[IOCON]


-----------------------------------------------------------------------------
(* What each operation is expected to put on the bus                       *)

\* The register pair <<A, B>> behind each 16-bit accessor.
AccessorRegs ==
    [readGPIOs |-> <<"GPIOA", "GPIOB">>,
     writeGPIOs |-> <<"GPIOA", "GPIOB">>,
     readGPIOsDirection |-> <<"IODIRA", "IODIRB">>,
     writeGPIOsDirection |-> <<"IODIRA", "IODIRB">>,
     readGPIOPolarity |-> <<"IOPOLA", "IOPOLB">>,
     writeGPIOPolarity |-> <<"IOPOLA", "IOPOLB">>,
     readGPIOInterruptEnable |-> <<"GPINTENA", "GPINTENB">>,
     writeGPIOInterruptEnable |-> <<"GPINTENA", "GPINTENB">>,
     readDefaultCompareRegisterForInterruptOnChange |-> <<"DEFVALA", "DEFVALB">>,
     writeDefaultCompareRegisterForInterruptOnChange |-> <<"DEFVALA", "DEFVALB">>,
     readInterruptOnChangeControlRegister |-> <<"INTCONA", "INTCONB">>,
     writeInterruptOnChangeControlRegister |-> <<"INTCONA", "INTCONB">>,
     readGPIOPullup |-> <<"GPPUA", "GPPUB">>,
     writeGPIOPullup |-> <<"GPPUA", "GPPUB">>,
     readGPIOInterruptFlags |-> <<"INTFA", "INTFB">>,
     readGPIOInterruptCapturedRegister |-> <<"INTCAPA", "INTCAPB">>,
     readOutputLatch |-> <<"OLATA", "OLATB">>,
     writeOutputLatch |-> <<"OLATA", "OLATB">>]

\* The addresses <<A, B>> an accessor uses under the flag it was called with.
AccessorAddrs(name) ==
    <<TableAddress(AccessorRegs[name][1], before.seq),
      TableAddress(AccessorRegs[name][2], before.seq)>>

\* The number of byte transactions the last operation is made of.
ExpectedTxCount ==
    IF lastOp.name \in ReadAccessors \cup WriteAccessors THEN 2
    ELSE IF lastOp.name \in {"getIOCon", "setIOCon"} THEN 1
    ELSE IF lastOp.name \in MirroringToggles THEN 2
    ELSE IF lastOp.name \in GuardedToggles /\ ~AlreadyInMode THEN 2
    ELSE 0

\* The opcodes for the flags the last operation was called with.
ReadOpcodeBefore == 65 + 2 * (IF before.haen THEN BusAddress ELSE 0)
WriteOpcodeBefore == 64 + 2 * (IF before.haen THEN BusAddress ELSE 0)

-----------------------------------------------------------------------------
(* C8: chip-select is LOW only within one byte transaction: it is driven   *)
(* LOW before the first transfer of the transaction and HIGH after its     *)
(* last, never driven LOW while already LOW, and is HIGH whenever a public *)
(* operation returns; 16-bit accessors and toggles give one low window per *)
(* byte transaction.                                                       *)
C8_ChipSelectDiscipline ==
    /\ ChipEnablePin \in DOMAIN pins /\ pins[ChipEnablePin] = HIGH
    /\ lastOp.name # "MCP23S17" =>
          /\ CsLevelAfter(log, Len(log)) = HIGH
          /\ Cardinality({i \in 1..Len(log) : IsCsWrite(log[i], LOW)})
                = ExpectedTxCount
          /\ \A i \in 1..Len(log) :
                LET lvl == CsLevelAfter(log, i - 1)
                IN  /\ IsCsWrite(log[i], LOW) =>
                          /\ lvl = HIGH
                          /\ i + 4 <= Len(log)
                          /\ \A j \in 1..3 : log[i + j].k = "transfer"
                          /\ IsCsWrite(log[i + 4], HIGH)
                    /\ IsCsWrite(log[i], HIGH) =>
                          lvl = LOW /\ i > 1 /\ log[i - 1].k = "transfer"
                    /\ log[i].k = "transfer" => lvl = LOW
                    /\ (log[i].k # "transfer"
                          /\ ~IsCsWrite(log[i], LOW) /\ ~IsCsWrite(log[i], HIGH))
                       => lvl = HIGH

\* writeGPIOs has produced two separate low windows of three transfers.
C8_Witness ==
    /\ lastOp.name = "writeGPIOs"
    /\ Len(log) = 10
    /\ IsCsWrite(log[1], LOW) /\ IsCsWrite(log[5], HIGH)
    /\ IsCsWrite(log[6], LOW) /\ IsCsWrite(log[10], HIGH)
    /\ pins[ChipEnablePin] = HIGH

-----------------------------------------------------------------------------
(* C9: every byte transaction transfers exactly three bytes inside one     *)
(* chip-select-low window: a read sends the read opcode, the register      *)
(* address, then a dummy 0x00 whose reply is the returned value; a write   *)
(* sends the write opcode, the register address, then the value byte.      *)
C9_ReadTx(t, addrs) ==
    t.opcode = ReadOpcodeBefore /\ t.addr \in addrs /\ t.data = 0

C9_WriteTx(t, addr, value) ==
    t.opcode = WriteOpcodeBefore /\ t.addr = addr /\ t.data = value

C9_TransactionBytes ==
    lastOp.name \notin {"MCP23S17", "reset"} =>
        /\ TxShaped(log)
        /\ NTx(log) = ExpectedTxCount
        /\ lastOp.name = "getIOCon" =>
              /\ C9_ReadTx(Tx(log, 1), {TableAddress("IOCON", before.seq)})
              /\ ret = Tx(log, 1).reply
        /\ lastOp.name = "setIOCon" =>
              C9_WriteTx(Tx(log, 1), TableAddress("IOCON", before.seq), lastOp.arg)
        /\ (lastOp.name \in GuardedToggles \cup MirroringToggles /\ NTx(log) = 2) =>
              /\ C9_ReadTx(Tx(log, 1), {TableAddress("IOCON", before.seq)})
              /\ C9_WriteTx(Tx(log, 2), TableAddress("IOCON", before.seq),
                            Tx(log, 2).data)
              /\ Tx(log, 2).data \in Bytes
        /\ lastOp.name \in ReadAccessors =>
              LET ab == AccessorAddrs(lastOp.name)
                  ta == IF Tx(log, 1).addr = ab[1] THEN 1 ELSE 2
              IN  /\ \A k \in 1..2 : C9_ReadTx(Tx(log, k), {ab[1], ab[2]})
                  /\ {Tx(log, 1).addr, Tx(log, 2).addr} = {ab[1], ab[2]}
                  /\ ret = Tx(log, ta).reply + 256 * Tx(log, 3 - ta).reply
        /\ lastOp.name \in WriteAccessors =>
              LET ab == AccessorAddrs(lastOp.name)
              IN  /\ C9_WriteTx(Tx(log, 1), ab[1], lastOp.arg % 256)
                  /\ C9_WriteTx(Tx(log, 2), ab[2], lastOp.arg \div 256)

\* getIOCon() at bus address 5 with hardware addressing enabled: opcode 0x4B,
\* address 0x0A, dummy 0x00, and the reply 0x08 is the value returned.
C9_Witness ==
    /\ lastOp.name = "getIOCon" /\ BusAddress = 5
    /\ log = << Ev("digitalWrite", ChipEnablePin, LOW),
                Ev("transfer", 75, 0), Ev("transfer", 10, 0),
                Ev("transfer", 0, 8),
                Ev("digitalWrite", ChipEnablePin, HIGH) >>
    /\ ret = 8

-----------------------------------------------------------------------------
(* C10: with the register addresses backed by a byte-addressable store,    *)
(* write16(addrA, addrB, value) stores the low byte at addrA and the high  *)
(* byte at addrB, addrA first, and a following read16(addrA, addrB)        *)
(* returns exactly value.                                                  *)

\* The chip decoded addresses and opcodes as the controller meant them when
\* the last operation was called.
StoreBackedBefore ==
    /\ before.seq = (Bit(before.regs[IOCON], 7) = 0)
    /\ (IF before.haen THEN BusAddress ELSE 0)
          = (IF Bit(before.regs[IOCON], 3) = 1 THEN BusAddress ELSE 0)

\* The read accessor of the register pair a write accessor writes.
MatchingRead(w) ==
    CHOOSE r \in ReadAccessors : AccessorRegs[r] = AccessorRegs[w]

C10_Stored ==
    (lastOp.name \in WriteAccessors /\ StoreBackedBefore) =>
        LET ab == AccessorAddrs(lastOp.name)
            ra == TableAddress(AccessorRegs[lastOp.name][1], TRUE)
            rb == TableAddress(AccessorRegs[lastOp.name][2], TRUE)
        IN  /\ TxShaped(log) /\ NTx(log) = 2
            /\ Tx(log, 1).addr = ab[1] /\ Tx(log, 1).data = lastOp.arg % 256
            /\ Tx(log, 2).addr = ab[2] /\ Tx(log, 2).data = lastOp.arg \div 256
            /\ chip.regs[ra] = lastOp.arg % 256
            /\ chip.regs[rb] = lastOp.arg \div 256
            /\ \A r \in RegIdx \ {ra, rb} : chip.regs[r] = before.regs[r]

C10_Loaded ==
    (lastOp.name \in ReadAccessors /\ StoreBackedBefore) =>
        LET ra == TableAddress(AccessorRegs[lastOp.name][1], TRUE)
            rb == TableAddress(AccessorRegs[lastOp.name][2], TRUE)
        IN  ret = chip.regs[ra] + 256 * chip.regs[rb]

C10_RoundTrip ==
    (/\ lastOp.name \in WriteAccessors
     /\ StoreBackedBefore
     /\ lastOp'.name = MatchingRead(lastOp.name)) => ret' = lastOp.arg

C10_Write16Read16RoundTrip ==
    [][C10_Stored' /\ C10_Loaded' /\ C10_RoundTrip]_vars

\* readOutputLatch has returned the 0xABCD that writeOutputLatch stored as
\* 0xCD at OLATA and 0xAB at OLATB.
C10_Witness ==
    /\ lastOp.name = "readOutputLatch"
    /\ ret = 43981
    /\ chip.regs[20] = 205 /\ chip.regs[21] = 171
    /\ StoreBackedBefore

-----------------------------------------------------------------------------
\* The events of l of kind k.
EventsOfKind(l, k) == {i \in 1..Len(l) : l[i].k = k}

(* C11: reset() performs exactly one delay, of 2 microseconds, whether or  *)
(* not a reset line is configured; with a reset line the line is driven    *)
(* LOW before the delay and HIGH after it, and is HIGH on return; without  *)
(* one no pin is written at all.                                           *)
C11_ResetPulseAndDelay ==
    lastOp.name = "reset" =>
        /\ Cardinality(EventsOfKind(log, "delayMicroseconds")) = 1
        /\ \A i \in EventsOfKind(log, "delayMicroseconds") : log[i].a = 2
        /\ EventsOfKind(log, "transfer") = {}
        /\ IF hasResetPin(Now)
           THEN /\ log = << Ev("digitalWrite", ResetPin, LOW),
                            Ev("delayMicroseconds", 2, 0),
                            Ev("digitalWrite", ResetPin, HIGH) >>
                /\ pins[ResetPin] = HIGH
           ELSE /\ log = << Ev("delayMicroseconds", 2, 0) >>
                /\ EventsOfKind(log, "digitalWrite") = {}
                /\ pins = before.pins

\* reset() has pulsed the wired reset line of a chip that had been put in
\* banked mode, which is back in its power-on state.
C11_Witness ==
    /\ lastOp.name = "reset" /\ ResetPin = WiredResetPin
    /\ Len(log) = 3 /\ log[2] = Ev("delayMicroseconds", 2, 0)
    /\ Bit(before.regs[IOCON], 7) = 1
    /\ chip.regs = PowerOnRegs
    /\ pins[WiredResetPin] = HIGH

-----------------------------------------------------------------------------
(* C12: immediately after construction the chip-select pin is an output    *)
(* driven HIGH, the reset pin is an output driven HIGH if and only if a    *)
(* reset line is configured (no reset-pin access otherwise), no SPI        *)
(* transfer has been issued, and the mirrored flags are sequential = true, *)
(* active-low = true, hardware-address-enabled = false.                    *)
C12_ConstructedState ==
    lastOp.name = "MCP23S17" =>
        /\ DOMAIN pins = (IF hasResetPin(Now) THEN {ChipEnablePin, ResetPin}
                                               ELSE {ChipEnablePin})
        /\ DOMAIN modes = DOMAIN pins
        /\ \A p \in DOMAIN pins : modes[p] = OUTPUT /\ pins[p] = HIGH
        /\ ~hasResetPin(Now) => \A i \in 1..Len(log) : log[i].a = ChipEnablePin
        /\ EventsOfKind(log, "transfer") = {}
        /\ registersAreSequential(Now)
        /\ interruptPinsAreActiveLow(Now)
        /\ ~hardwareAddressEnabled(Now)

\* A controller with a reset line on pin 9 has just been constructed.
C12_Witness ==
    /\ lastOp.name = "MCP23S17" /\ nops = 0
    /\ ResetPin = WiredResetPin
    /\ log = << Ev("pinMode", ChipEnablePin, OUTPUT),
                Ev("digitalWrite", ChipEnablePin, HIGH),
                Ev("pinMode", WiredResetPin, OUTPUT),
                Ev("digitalWrite", WiredResetPin, HIGH) >>

-----------------------------------------------------------------------------
\* The operations that go through setIOCon.
ConfigWriters == {"setIOCon"} \cup GuardedToggles \cup MirroringToggles

\* The k-th byte transaction of l is a write to the configuration address of
\* the mode the controller was in when the operation was called.
IsConfigWriteTx(l, k) ==
    /\ Tx(l, k).opcode % 2 = 0
    /\ Tx(l, k).addr = TableAddress("IOCON", before.seq)

(* C13: setIOCon, called directly or by a mode toggle, is the only path    *)
(* that changes the mirrored flags or writes the configuration register:   *)
(* in both banking modes no 16-bit write accessor issues a write           *)
(* transaction to the configuration address of the current mode, and no    *)
(* write or read accessor changes a mirrored flag.                         *)
C13_OnlySetIOConTouchesConfiguration ==
    /\ lastOp.name \in ReadAccessors \cup WriteAccessors =>
          /\ FlagsUnchanged
          /\ TxShaped(log) /\ NTx(log) = 2
          /\ \A k \in 1..NTx(log) : ~IsConfigWriteTx(log, k)
          /\ StoreBackedBefore => chip.regs[IOCON] = before.regs[IOCON]
    /\ lastOp.name \in WriteAccessors =>
          \A k \in 1..NTx(log) :
              /\ Tx(log, k).opcode % 2 = 0
              /\ Tx(log, k).addr \notin {TableAddress("IOCON", before.seq)}
    /\ lastOp.name \notin ConfigWriters => FlagsUnchanged
    /\ (lastOp.name \notin ConfigWriters \cup {"MCP23S17", "reset"}) =>
          /\ TxShaped(log)
          /\ \A k \in 1..NTx(log) : ~IsConfigWriteTx(log, k)

\* writeOutputLatch on a banked controller has written 0x0A and 0x1A, neither
\* of which is the banked configuration address 0x05, and has left the flags
\* and the chip's configuration register as they were.
C13_Witness ==
    /\ lastOp.name = "writeOutputLatch" /\ ~before.seq
    /\ StoreBackedBefore
    /\ TxShaped(log) /\ NTx(log) = 2
    /\ Tx(log, 1).addr = 10 /\ Tx(log, 2).addr = 26
    /\ FlagsUnchanged
    /\ chip.regs[IOCON] = before.regs[IOCON]
    /\ chip.regs[20] = lastOp.arg % 256

-----------------------------------------------------------------------------
\* The mode toggles other than makeRegistersSequential/makeRegistersBanked.
NonBankingToggles ==
    {"makeInterruptOutputLinesActiveLow", "makeInterruptOutputLinesActiveHigh",
     "enableHardwareAddressPins", "disableHardwareAddressPins",
     "interruptPinsAreMirrored", "interruptPinsAreIndependent"}

(* C14: each non-banking mode toggle (polarity, hardware-address,          *)
(* interrupt-mirroring) writes back the configuration byte it read with    *)
(* bit 7 unchanged, so registersAreSequential() and the chip's banking bit *)
(* are the same after the call as before it.                               *)
C14_NonBankingTogglesKeepBit7 ==
    lastOp.name \in NonBankingToggles =>
        /\ registersAreSequential(Now) = before.seq
        /\ ChipBank(chip) = Bit(before.regs[IOCON], 7)
        /\ NTx(log) = 2 => Bit(Tx(log, 2).data, 7) = Bit(Tx(log, 1).reply, 7)

-----------------------------------------------------------------------------
(* C15: a configuration write that changes the banking mode or the         *)
(* hardware-address mode is itself addressed with the pre-change mode:     *)
(* setIOCon sends its write to the configuration address of the mode in    *)
(* force before the call (0x0A if sequential, 0x05 if banked) with the     *)
(* opcode bus address in force before the call; the mirrored flags take    *)
(* the new value only after that transaction, so only later transactions   *)
(* use the new mode.                                                       *)
C15_ConfigWriteUsesPreChangeMode ==
    /\ (lastOp.name \in ConfigWriters /\ log # << >>) =>
          LET t == Tx(log, NTx(log))
          IN  /\ TxShaped(log)
              /\ t.opcode = WriteOpcodeBefore
              /\ t.addr = (IF before.seq THEN 10 ELSE 5)
              /\ registersAreSequential(Now) = (Bit(t.data, 7) = 0)
              /\ hardwareAddressEnabled(Now) = (Bit(t.data, 3) = 1)
              /\ StoreBackedBefore => chip.regs[IOCON] = t.data
    /\ lastOp.name = "getIOCon" =>
          /\ Tx(log, 1).opcode = ReadOpcodeBefore
          /\ Tx(log, 1).addr = (IF before.seq THEN 10 ELSE 5)

\* setIOCon(0x88) on a sequential controller at bus address 5 without hardware
\* addressing went out as opcode 0x40 to address 0x0A, and has left the
\* controller banked with hardware addressing enabled.
C15_Witness ==
    /\ lastOp.name = "setIOCon" /\ lastOp.arg = 136 /\ BusAddress = 5
    /\ before.seq /\ ~before.haen
    /\ TxShaped(log) /\ NTx(log) = 1
    /\ Tx(log, 1) = [opcode |-> 64, addr |-> 10, data |-> 136, reply |-> 0]
    /\ ~_registersAreSequential /\ _hardwareAddressPinsEnabled
    /\ chip.regs[IOCON] = 136

-----------------------------------------------------------------------------
\* The value a register pair held in the chip's power-on state.
PowerOnWord(pair) ==
    PowerOnRegs[TableAddress(pair[1], TRUE)]
        + 256 * PowerOnRegs[TableAddress(pair[2], TRUE)]

\* The write accessors of the register pair a read accessor reads.
MatchingWrites(r) == {w \in WriteAccessors : AccessorRegs[w] = AccessorRegs[r]}

(* C16: the two address layouts name the same logical registers: against a *)
(* chip that maps physical addresses to logical registers according to its *)
(* banking bit, a 16-bit value written through any write accessor is       *)
(* returned by the matching read accessor both immediately and after any   *)
(* number of makeRegistersBanked()/makeRegistersSequential() switches in   *)
(* between, and no other logical register's stored value is changed by the *)
(* write.                                                                  *)
C16_LayoutsNameTheSameRegisters ==
    /\ lastOp.name \in ReadAccessors =>
          /\ \A w \in MatchingWrites(lastOp.name) :
                written[w].value # -1 => ret = written[w].value
          /\ (\A w \in MatchingWrites(lastOp.name) : written[w].value = -1) =>
                ret = PowerOnWord(AccessorRegs[lastOp.name])
    /\ lastOp.name \in WriteAccessors =>
          LET ra == TableAddress(AccessorRegs[lastOp.name][1], TRUE)
              rb == TableAddress(AccessorRegs[lastOp.name][2], TRUE)
          IN  /\ chip.regs[ra] = lastOp.arg % 256
              /\ chip.regs[rb] = lastOp.arg \div 256
              /\ \A r \in RegIdx \ {ra, rb} : chip.regs[r] = before.regs[r]
    /\ lastOp.name \in {"makeRegistersBanked", "makeRegistersSequential"} =>
          /\ \A r \in RegIdx \ {IOCON} : chip.regs[r] = before.regs[r]
          /\ MirrorMatchesChip

\* readGPIOPullup, in the sequential layout (0x0C, 0x0D), has returned the
\* 0xABCD that writeGPIOPullup stored in the banked layout.
C16_Witness ==
    /\ lastOp.name = "readGPIOPullup" /\ ret = 43981
    /\ written["writeGPIOPullup"] = [value |-> 43981, seq |-> FALSE]
    /\ before.seq
    /\ TxShaped(log) /\ NTx(log) = 2
    /\ {Tx(log, 1).addr, Tx(log, 2).addr} = {12, 13}

-----------------------------------------------------------------------------
(* The other parts of src/libbonuspin.h.  Each is an object of its own,    *)
(* explored on its own: the controller's variables stay as Fresh leaves    *)
(* them, and pins, modes and log record what the part does.                *)

HoldPinHighEnter(m, pin) == DigitalPinHolderCtor(m, pin, HIGH)
HoldPinHighExit(m, pin) == DigitalPinHolderDtor(m, pin, LOW)

\* The state right after the constructor `name` has produced m.
Installed(m, name) ==
    /\ BusAddress = m.bus
    /\ ResetPin = m.rst
    /\ _registersAreSequential = m.seq
    /\ _polarityIsActiveLow = m.pol
    /\ _hardwareAddressPinsEnabled = m.haen
    /\ chip = m.chip
    /\ pins = m.pins
    /\ modes = m.modes
    /\ log = m.log
    /\ ret = 0
    /\ lastOp = [name |-> name, arg |-> 0]
    /\ before = [seq |-> TRUE, pol |-> TRUE, haen |-> FALSE,
                 regs |-> PowerOnRegs, pins |-> << >>]
    /\ written = NothingWritten
    /\ nops = 0

-----------------------------------------------------------------------------
(* src/libbonuspin.h: HC138<selA, selB, selC, enablePin>                   *)

selA == 2
selB == 3
selC == 4
enablePin == 5

HC138setupPins(m) ==
    Then(pinMode(m, selA, OUTPUT), LAMBDA m1 :
    Then(pinMode(m1, selB, OUTPUT), LAMBDA m2 :
    Then(pinMode(m2, selC, OUTPUT), LAMBDA m3 :
    Then(pinMode(m3, enablePin, OUTPUT), LAMBDA m4 :
    Then(digitalWrite(m4, selA, HIGH), LAMBDA m5 :
    Then(digitalWrite(m5, selB, HIGH), LAMBDA m6 :
    Then(digitalWrite(m6, selB, HIGH), LAMBDA m7 :
         digitalWrite(m7, enablePin, LOW))))))))

\* The constructor HC138().
HC138(m) == HC138setupPins(m)

generateSignalWhileEnabled(m, a, b, c) ==
    Then(HoldPinLowEnter(m, enablePin), LAMBDA m1 :
    Then(HoldPinLowExit(m1, enablePin), LAMBDA m2 :
    Then(digitalWrite(m2, selA, a), LAMBDA m3 :
    Then(digitalWrite(m3, selB, b), LAMBDA m4 :
         digitalWrite(m4, selC, c)))))

\* TemporaryDisabler is HoldPinLow<enablePin>.
generateSignal(m, a, b, c) ==
    Then(HoldPinLowEnter(m, enablePin), LAMBDA m1 :
    Then(digitalWrite(m1, selA, a), LAMBDA m2 :
    Then(digitalWrite(m2, selB, b), LAMBDA m3 :
    Then(digitalWrite(m3, selC, c), LAMBDA m4 :
         HoldPinLowExit(m4, enablePin)))))

\* void enableLine(byte signal)
RECURSIVE enableLine(_, _)
enableLine(m, signal) ==
    CASE signal = 0 -> generateSignal(m, LOW, LOW, LOW)
      [] signal = 1 -> generateSignal(m, HIGH, LOW, LOW)
      [] signal = 2 -> generateSignal(m, LOW, HIGH, LOW)
      [] signal = 3 -> generateSignal(m, HIGH, HIGH, LOW)
      [] signal = 4 -> generateSignal(m, LOW, LOW, HIGH)
      [] signal = 5 -> generateSignal(m, HIGH, LOW, HIGH)
      [] signal = 6 -> generateSignal(m, LOW, HIGH, HIGH)
      [] signal = 7 -> generateSignal(m, HIGH, HIGH, HIGH)
      [] OTHER -> enableLine(m, ToByte(BitAnd8(signal, 7)))

enableChip(m) == digitalWrite(m, enablePin, HIGH)

disableChip(m) == digitalWrite(m, enablePin, LOW)

\* Every byte as the first call, a few of them afterwards.
Signals == IF nops = 0 THEN Bytes ELSE {0, 6, 13, 255}

InitHC138 ==
    \E m0 \in {Fresh(0, NoPin)} : \E m \in {HC138(m0)} : Installed(m, "HC138")

CallHC138SetupPins ==
    /\ nops < MaxOps
    /\ \E m0 \in {Start(NoFloat)} : \E m \in {HC138setupPins(m0)} :
               Commit(m, "setupPins", 0, FALSE)

CallEnableLine ==
    /\ nops < MaxOps
    /\ \E signal \in Signals :
           \E m0 \in {Start(NoFloat)} : \E m \in {enableLine(m0, signal)} :
               Commit(m, "enableLine", signal, FALSE)

CallEnableChip ==
    /\ nops < MaxOps
    /\ \E m0 \in {Start(NoFloat)} : \E m \in {enableChip(m0)} :
               Commit(m, "enableChip", 0, FALSE)

CallDisableChip ==
    /\ nops < MaxOps
    /\ \E m0 \in {Start(NoFloat)} : \E m \in {disableChip(m0)} :
               Commit(m, "disableChip", 0, FALSE)

NextHC138 ==
    \/ CallHC138SetupPins
    \/ CallEnableLine
    \/ CallEnableChip
    \/ CallDisableChip

SpecHC138 == InitHC138 /\ [][NextHC138]_vars

-----------------------------------------------------------------------------
(* C17: HC138::enableLine(signal) terminates for every byte value of       *)
(* signal and drives selA, selB, selC to bits 0, 1, 2 of (signal mod 8);   *)
(* the enable pin is driven LOW before any select pin is written and HIGH  *)
(* after the last one, so the chip is disabled while the select lines      *)
(* change and enabled on return whatever its state before the call.        *)
C17_EnableLineSelects ==
    lastOp.name = "enableLine" =>
        LET line == lastOp.arg % 8
        IN  /\ log = << Ev("digitalWrite", enablePin, LOW),
                        Ev("digitalWrite", selA, Bit(line, 0)),
                        Ev("digitalWrite", selB, Bit(line, 1)),
                        Ev("digitalWrite", selC, Bit(line, 2)),
                        Ev("digitalWrite", enablePin, HIGH) >>
            /\ pins[selA] = Bit(line, 0)
            /\ pins[selB] = Bit(line, 1)
            /\ pins[selC] = Bit(line, 2)
            /\ pins[enablePin] = HIGH

\* enableLine(13) on a chip that was enabled has selected line 5 (A and C
\* HIGH, B LOW) with the chip disabled in between, and has left it enabled.
C17_Witness ==
    /\ lastOp = [name |-> "enableLine", arg |-> 13]
    /\ before.pins[enablePin] = HIGH
    /\ log[1] = Ev("digitalWrite", enablePin, LOW)
    /\ log[5] = Ev("digitalWrite", enablePin, HIGH)
    /\ pins[selA] = HIGH /\ pins[selB] = LOW /\ pins[selC] = HIGH
    /\ pins[enablePin] = HIGH

-----------------------------------------------------------------------------
(* Arduino's shiftOut(dataPin, clockPin, bitOrder, val), which takes val   *)
(* as a uint8_t and clocks its eight bits out one at a time.               *)

LSBFIRST == 0
MSBFIRST == 1

RECURSIVE shiftOutFrom(_, _, _, _, _, _)
shiftOutFrom(m, dataPin, clockPin, bitOrder, val, i) ==
    IF i >= 8 THEN m
    ELSE Then(digitalWrite(m, dataPin,
                           IF bitOrder = LSBFIRST THEN Bit(val, i)
                                                  ELSE Bit(val, 7 - i)),
              LAMBDA m1 :
         Then(digitalWrite(m1, clockPin, HIGH), LAMBDA m2 :
         Then(digitalWrite(m2, clockPin, LOW), LAMBDA m3 :
              shiftOutFrom(m3, dataPin, clockPin, bitOrder, val, i + 1))))

shiftOut(m, dataPin, clockPin, bitOrder, val) ==
    shiftOutFrom(m, dataPin, clockPin, bitOrder, ToByte(val), 0)

-----------------------------------------------------------------------------
(* 32- and 64-bit integers, held as their bytes, least significant first   *)

\* value >> n for n a multiple of 8; a signed negative value shifts in ones.
WideShiftRight(value, n, signed) ==
    LET k == n \div 8
        fill == IF signed /\ value[Len(value)] >= 128 THEN 255 ELSE 0
    IN  [i \in 1..Len(value) |->
            IF i + k <= Len(value) THEN value[i + k] ELSE fill]

\* value & 0xFF, and the conversion of value to uint8_t.
WideAnd255(value) == BitAnd8(value[1], 255)
WideToByte(value) == ToByte(value[1])

-----------------------------------------------------------------------------
(* src/libbonuspin.h: SN74HC595<ST_CP, SH_CP, DS>                          *)

ST_CP == 8
SH_CP == 7
DS == 6

SN74HC595setupPins(m) ==
    Then(pinMode(m, ST_CP, OUTPUT), LAMBDA m1 :
    Then(pinMode(m1, SH_CP, OUTPUT), LAMBDA m2 :
         pinMode(m2, DS, OUTPUT)))

\* The constructor SN74HC595().
SN74HC595(m) == SN74HC595setupPins(m)

\* void shiftOut(byte value)
shiftOutByte(m, value) ==
    Then(HoldPinLowEnter(m, ST_CP), LAMBDA m1 :
    Then(shiftOut(m1, DS, SH_CP, MSBFIRST, value), LAMBDA m2 :
         HoldPinLowExit(m2, ST_CP)))

shiftOutUint16LowByteFirst(m, value) ==
    Then(HoldPinLowEnter(m, ST_CP), LAMBDA m1 :
    Then(shiftOut(m1, DS, SH_CP, MSBFIRST, value), LAMBDA m2 :
    Then(shiftOut(m2, DS, SH_CP, MSBFIRST, ShiftRight(value, 8)), LAMBDA m3 :
         HoldPinLowExit(m3, ST_CP))))

\* void shiftOut(uint16_t value)
shiftOutUint16(m, value) ==
    Then(HoldPinLowEnter(m, ST_CP), LAMBDA m1 :
    Then(shiftOut(m1, DS, SH_CP, MSBFIRST, ShiftRight(value, 8)), LAMBDA m2 :
    Then(shiftOut(m2, DS, SH_CP, MSBFIRST, value), LAMBDA m3 :
         HoldPinLowExit(m3, ST_CP))))

\* void shiftOut(uint8_t lower, uint8_t upper)
shiftOutLowerUpper(m, lower, upper) ==
    Then(HoldPinLowEnter(m, ST_CP), LAMBDA m1 :
    Then(shiftOut(m1, DS, SH_CP, MSBFIRST, upper), LAMBDA m2 :
    Then(shiftOut(m2, DS, SH_CP, MSBFIRST, lower), LAMBDA m3 :
         HoldPinLowExit(m3, ST_CP))))

\* void shiftOut(int16_t value): >> of a negative value keeps the sign.
shiftOutInt16(m, value) ==
    Then(HoldPinLowEnter(m, ST_CP), LAMBDA m1 :
    Then(shiftOut(m1, DS, SH_CP, MSBFIRST, BitAnd(ShiftRight(value, 8), 255)),
         LAMBDA m2 :
    Then(shiftOut(m2, DS, SH_CP, MSBFIRST, value), LAMBDA m3 :
         HoldPinLowExit(m3, ST_CP))))

\* The bodies of the 32-bit and of the 64-bit overloads, for either sign.
shiftOut32(m, value, signed) ==
    Then(HoldPinLowEnter(m, ST_CP), LAMBDA m1 :
    Then(shiftOut(m1, DS, SH_CP, MSBFIRST,
                  WideAnd255(WideShiftRight(value, 24, signed))), LAMBDA m2 :
    Then(shiftOut(m2, DS, SH_CP, MSBFIRST,
                  WideAnd255(WideShiftRight(value, 16, signed))), LAMBDA m3 :
    Then(shiftOut(m3, DS, SH_CP, MSBFIRST,
                  WideAnd255(WideShiftRight(value, 8, signed))), LAMBDA m4 :
    Then(shiftOut(m4, DS, SH_CP, MSBFIRST, WideAnd255(value)), LAMBDA m5 :
         HoldPinLowExit(m5, ST_CP))))))

shiftOut64(m, value, signed) ==
    Then(HoldPinLowEnter(m, ST_CP), LAMBDA m1 :
    Then(shiftOut(m1, DS, SH_CP, MSBFIRST,
                  WideAnd255(WideShiftRight(value, 56, signed))), LAMBDA m2 :
    Then(shiftOut(m2, DS, SH_CP, MSBFIRST,
                  WideAnd255(WideShiftRight(value, 48, signed))), LAMBDA m3 :
    Then(shiftOut(m3, DS, SH_CP, MSBFIRST,
                  WideAnd255(WideShiftRight(value, 40, signed))), LAMBDA m4 :
    Then(shiftOut(m4, DS, SH_CP, MSBFIRST,
                  WideAnd255(WideShiftRight(value, 32, signed))), LAMBDA m5 :
    Then(shiftOut(m5, DS, SH_CP, MSBFIRST,
                  WideAnd255(WideShiftRight(value, 24, signed))), LAMBDA m6 :
    Then(shiftOut(m6, DS, SH_CP, MSBFIRST,
                  WideAnd255(WideShiftRight(value, 16, signed))), LAMBDA m7 :
    Then(shiftOut(m7, DS, SH_CP, MSBFIRST,
                  WideAnd255(WideShiftRight(value, 8, signed))), LAMBDA m8 :
    Then(shiftOut(m8, DS, SH_CP, MSBFIRST, WideToByte(value)), LAMBDA m9 :
         HoldPinLowExit(m9, ST_CP))))))))))

\* void shiftOut(uint32_t value), (int32_t value), (uint64_t value), (int64_t value)
shiftOutUint32(m, value) == shiftOut32(m, value, FALSE)
shiftOutInt32(m, value) == shiftOut32(m, value, TRUE)
shiftOutUint64(m, value) == shiftOut64(m, value, FALSE)
shiftOutInt64(m, value) == shiftOut64(m, value, TRUE)

\* Every byte as the first call, a few of them afterwards.
ShiftBytes == IF nops = 0 THEN Bytes ELSE {0, 165, 255}
ShiftWords == {255, 4660, 43981}
ShiftInt16s == {-21555, -1, 4660}
\* 0x12345678 and 0xDEADBEEF; 0x0123456789ABCDEF and 0xFEDCBA9876543210.
Wide32s == {<<120, 86, 52, 18>>, <<239, 190, 173, 222>>}
Wide64s == {<<239, 205, 171, 137, 103, 69, 35, 1>>,
            <<16, 50, 84, 118, 152, 186, 220, 254>>}

InitHC595 ==
    \E m0 \in {Fresh(0, NoPin)} : \E m \in {SN74HC595(m0)} :
        Installed(m, "SN74HC595")

CallShiftOutByte ==
    /\ nops < MaxOps
    /\ \E value \in ShiftBytes :
           \E m0 \in {Start(NoFloat)} : \E m \in {shiftOutByte(m0, value)} :
               Commit(m, "shiftOut(byte)", value, FALSE)

CallShiftOutUint16 ==
    /\ nops < MaxOps
    /\ \E value \in ShiftWords :
           \E m0 \in {Start(NoFloat)} : \E m \in {shiftOutUint16(m0, value)} :
               Commit(m, "shiftOut(uint16_t)", value, FALSE)

CallShiftOutLowerUpper ==
    /\ nops < MaxOps
    /\ \E lower \in {1, 255}, upper \in {2, 128} :
           \E m0 \in {Start(NoFloat)} :
           \E m \in {shiftOutLowerUpper(m0, lower, upper)} :
               Commit(m, "shiftOut(uint8_t, uint8_t)", <<lower, upper>>, FALSE)

CallShiftOutInt16 ==
    /\ nops < MaxOps
    /\ \E value \in ShiftInt16s :
           \E m0 \in {Start(NoFloat)} : \E m \in {shiftOutInt16(m0, value)} :
               Commit(m, "shiftOut(int16_t)", value, FALSE)

CallShiftOutUint32 ==
    /\ nops < MaxOps
    /\ \E value \in Wide32s :
           \E m0 \in {Start(NoFloat)} : \E m \in {shiftOutUint32(m0, value)} :
               Commit(m, "shiftOut(uint32_t)", value, FALSE)

CallShiftOutInt32 ==
    /\ nops < MaxOps
    /\ \E value \in Wide32s :
           \E m0 \in {Start(NoFloat)} : \E m \in {shiftOutInt32(m0, value)} :
               Commit(m, "shiftOut(int32_t)", value, FALSE)

CallShiftOutUint64 ==
    /\ nops < MaxOps
    /\ \E value \in Wide64s :
           \E m0 \in {Start(NoFloat)} : \E m \in {shiftOutUint64(m0, value)} :
               Commit(m, "shiftOut(uint64_t)", value, FALSE)

CallShiftOutInt64 ==
    /\ nops < MaxOps
    /\ \E value \in Wide64s :
           \E m0 \in {Start(NoFloat)} : \E m \in {shiftOutInt64(m0, value)} :
               Commit(m, "shiftOut(int64_t)", value, FALSE)

NextHC595 ==
    \/ CallShiftOutByte
    \/ CallShiftOutUint16
    \/ CallShiftOutLowerUpper
    \/ CallShiftOutInt16
    \/ CallShiftOutUint32
    \/ CallShiftOutInt32
    \/ CallShiftOutUint64
    \/ CallShiftOutInt64

SpecHC595 == InitHC595 /\ [][NextHC595]_vars

-----------------------------------------------------------------------------
ShiftOutOverloads ==
    {"shiftOut(byte)", "shiftOut(uint16_t)", "shiftOut(uint8_t, uint8_t)",
     "shiftOut(int16_t)", "shiftOut(uint32_t)", "shiftOut(int32_t)",
     "shiftOut(uint64_t)", "shiftOut(int64_t)"}

\* The width in bytes of the argument of each overload.
ArgumentBytes ==
    [o \in ShiftOutOverloads |->
        CASE o = "shiftOut(byte)" -> 1
          [] o \in {"shiftOut(uint16_t)", "shiftOut(uint8_t, uint8_t)",
                    "shiftOut(int16_t)"} -> 2
          [] o \in {"shiftOut(uint32_t)", "shiftOut(int32_t)"} -> 4
          [] OTHER -> 8]

\* Byte k (0 the least significant) of the argument of the last call.
ArgumentByte(k) ==
    IF lastOp.name \in {"shiftOut(byte)", "shiftOut(uint16_t)",
                        "shiftOut(int16_t)"}
    THEN ((lastOp.arg % 65536) \div Pow2(8 * k)) % 256
    ELSE lastOp.arg[k + 1]

\* The events of one byte b clocked out most significant bit first on DS and
\* SH_CP: event j of 24.
ShiftOutEvent(b, j) ==
    CASE j % 3 = 1 -> Ev("digitalWrite", DS, Bit(b, 7 - (j - 1) \div 3))
      [] j % 3 = 2 -> Ev("digitalWrite", SH_CP, HIGH)
      [] OTHER -> Ev("digitalWrite", SH_CP, LOW)

(* C18: every SN74HC595::shiftOut overload holds the latch pin LOW for the *)
(* whole call and releases it HIGH exactly once at the end, and emits the  *)
(* bytes of a multi-byte value most-significant byte first (upper then     *)
(* lower for shiftOut(lower, upper)), each byte being the corresponding 8  *)
(* bits of the argument; 1, 2, 4 or 8 bytes are emitted according to the   *)
(* argument width.                                                         *)
C18_ShiftOutLatchedMsbFirst ==
    lastOp.name \in ShiftOutOverloads =>
        LET n == ArgumentBytes[lastOp.name]
        IN  /\ Len(log) = 24 * n + 2
            /\ log[1] = Ev("digitalWrite", ST_CP, LOW)
            /\ log[Len(log)] = Ev("digitalWrite", ST_CP, HIGH)
            /\ \A i \in 2..(Len(log) - 1) : log[i].a # ST_CP
            /\ \A b \in 1..n : \A j \in 1..24 :
                  log[1 + 24 * (b - 1) + j]
                      = ShiftOutEvent(ArgumentByte(n - b), j)
            /\ pins[ST_CP] = HIGH

\* shiftOut(int16_t(-21555)), which is 0xABCD, has clocked out 0xAB and then
\* 0xCD between one LOW and one HIGH of the latch pin.
C18_Witness ==
    /\ lastOp = [name |-> "shiftOut(int16_t)", arg |-> -21555]
    /\ Len(log) = 50
    /\ \A j \in 1..24 : /\ log[1 + j] = ShiftOutEvent(171, j)
                        /\ log[25 + j] = ShiftOutEvent(205, j)
    /\ log[1] = Ev("digitalWrite", ST_CP, LOW)
    /\ log[50] = Ev("digitalWrite", ST_CP, HIGH)

-----------------------------------------------------------------------------
(* src/ics/memory/Series_23LCxx.h: the 23LC1024 helpers                    *)

WRITE == 2
READ == 3

\* The bus has answered one more transfer.
Answered(m) == [m EXCEPT !.nread = @ + 1]

sendOpcode(m, opcode) == Answered(SPItransfer(m, ToByte(opcode)))

transferAddressLowByteFirst(m, address) ==
    Then(Answered(SPItransfer(m, ToByte(address))), LAMBDA m1 :
    Then(Answered(SPItransfer(m1, ToByte(ShiftRight(address, 8)))), LAMBDA m2 :
         Answered(SPItransfer(m2, ToByte(ShiftRight(address, 16))))))

\* address is a uint32_t; each static_cast<uint8_t> keeps the low 8 bits.
transferAddress(m, address) ==
    Then(Answered(SPItransfer(m, ToByte(ShiftRight(address, 16)))), LAMBDA m1 :
    Then(Answered(SPItransfer(m1, ToByte(ShiftRight(address, 8)))), LAMBDA m2 :
         Answered(SPItransfer(m2, ToByte(address)))))

read8(m, address) ==
    Then(sendOpcode(m, READ), LAMBDA m1 :
    Then(transferAddress(m1, address), LAMBDA m2 :
         Answered(SPItransfer(m2, 0))))

write8(m, address, value) ==
    Then(sendOpcode(m, WRITE), LAMBDA m1 :
    Then(transferAddress(m1, address), LAMBDA m2 :
         Answered(SPItransfer(m2, ToByte(value)))))

\* 0x000000, 0x012345, 0x01FFFF (the last byte of the device) and 0x7F123456.
SramAddresses == {0, 74565, 131071, 2131899478}
\* Every byte as the first call, a few of them afterwards.
SramBytes == IF nops = 0 THEN Bytes ELSE {0, 90, 255}
\* What the bus answers to each of the five transfers of a helper.
SramReplies == {<<17, 34, 51, 68, v>> : v \in SramBytes}

\* No object is constructed: the helpers are free functions on the SPI bus.
InitSRAM == \E m \in {Fresh(0, NoPin)} : Installed(m, "SPI")

CallRead8 ==
    /\ nops < MaxOps
    /\ \E address \in SramAddresses, fl \in SramReplies :
           \E m0 \in {Start(fl)} : \E m \in {read8(m0, address)} :
               Commit(m, "read8", address, TRUE)

CallWrite8 ==
    /\ nops < MaxOps
    /\ \E address \in SramAddresses, value \in SramBytes :
           \E m0 \in {Start(<<17, 34, 51, 68, 85>>)} :
           \E m \in {write8(m0, address, value)} :
               Commit(m, "write8", <<address, value>>, FALSE)

NextSRAM ==
    \/ CallRead8
    \/ CallWrite8

SpecSRAM == InitSRAM /\ [][NextSRAM]_vars

-----------------------------------------------------------------------------
\* The bytes sent by the transfers of l, in order.
BytesSent(l) == [i \in 1..Len(l) |-> l[i].a]

(* C19: the 23LC1024 helpers read8 and write8 never touch a chip-select    *)
(* pin and transfer exactly five bytes in order: the opcode (0x03 for      *)
(* read8, 0x02 for write8), address bits 23-16, bits 15-8, bits 7-0, then  *)
(* the data byte (a dummy 0x00 for read8, whose reply is returned; the     *)
(* value for write8).                                                      *)
C19_FiveTransfersNoChipSelect ==
    lastOp.name \in {"read8", "write8"} =>
        LET address == IF lastOp.name = "read8" THEN lastOp.arg
                                               ELSE lastOp.arg[1]
        IN  /\ Len(log) = 5
            /\ \A i \in 1..5 : log[i].k = "transfer"
            /\ pins = before.pins
            /\ BytesSent(log) =
                  << IF lastOp.name = "read8" THEN 3 ELSE 2,
                     (address \div 65536) % 256,
                     (address \div 256) % 256,
                     address % 256,
                     IF lastOp.name = "read8" THEN 0 ELSE lastOp.arg[2] >>
            /\ lastOp.name = "read8" => ret = log[5].b

\* read8(0x7F123456) has sent 0x03, 0x12, 0x34, 0x56, 0x00 and has returned
\* the 0x5A the bus answered to the last of them.
C19_Witness ==
    /\ lastOp = [name |-> "read8", arg |-> 2131899478]
    /\ BytesSent(log) = <<3, 18, 52, 86, 0>>
    /\ log[5].b = 90 /\ ret = 90
    /\ pins = << >>

-----------------------------------------------------------------------------
(* src/libbonuspin.h: HC165<input, clock, shld, enable>                    *)

INPUT == 0
input == 14
clock == 15
shld == 16
enable == 17
pulseWidthUSec == 5

\* digitalRead(pin): the level is the next one the environment presents.
digitalRead(m, pin) ==
    Then(m.float[m.nread + 1], LAMBDA level :
         [m EXCEPT !.ret = level, !.nread = @ + 1,
                   !.log = Append(@, Ev("digitalRead", pin, level))])

HC165setupPins(m) ==
    Then(pinMode(m, input, INPUT), LAMBDA m1 :
    Then(pinMode(m1, clock, OUTPUT), LAMBDA m2 :
    Then(pinMode(m2, shld, OUTPUT), LAMBDA m3 :
    Then(pinMode(m3, enable, OUTPUT), LAMBDA m4 :
    Then(digitalWrite(m4, clock, LOW), LAMBDA m5 :
         digitalWrite(m5, shld, HIGH))))))

\* The constructor HC165().
HC165(m) == HC165setupPins(m)

\* ChipEnabler is HoldPinHigh<enable>, ParallelLoadAction is HoldPinLow<shld>.
parallelLoad(m) ==
    Then(HoldPinHighEnter(m, enable), LAMBDA m1 :
    Then(HoldPinLowEnter(m1, shld), LAMBDA m2 :
    Then(delayMicroseconds(m2, pulseWidthUSec), LAMBDA m3 :
    Then(HoldPinLowExit(m3, shld), LAMBDA m4 :
         HoldPinHighExit(m4, enable)))))

\* ClockPulser is HoldPinHigh<enable>.
pulseClock(m) ==
    Then(HoldPinHighEnter(m, enable), LAMBDA m1 :
    Then(delayMicroseconds(m1, pulseWidthUSec), LAMBDA m2 :
         HoldPinHighExit(m2, enable)))

\* The loop of shiftIn from iteration i on, with bytesVal so far.
RECURSIVE shiftInFrom(_, _, _)
shiftInFrom(m, bytesVal, i) ==
    IF i >= 8 THEN [m EXCEPT !.ret = ToByte(bytesVal)]
    ELSE Then(digitalRead(m, input), LAMBDA m1 :
         Then(pulseClock(m1), LAMBDA m2 :
              shiftInFrom(m2, BitOr(bytesVal, ShiftLeft(m1.ret, 7 - i)), i + 1)))

shiftIn(m) == Then(parallelLoad(m), LAMBDA m1 : shiftInFrom(m1, 0, 0))

\* The eight levels on the input pin that spell the byte v, first read first.
LevelsOf(v) == [i \in 1..8 |-> Bit(v, 8 - i)]
\* Every byte as the first call, a few of them afterwards.
InputLevels == {LevelsOf(v) : v \in (IF nops = 0 THEN Bytes ELSE {0, 165, 255})}

InitHC165 ==
    \E m0 \in {Fresh(0, NoPin)} : \E m \in {HC165(m0)} : Installed(m, "HC165")

CallParallelLoad ==
    /\ nops < MaxOps
    /\ \E m0 \in {Start(NoFloat)} : \E m \in {parallelLoad(m0)} :
               Commit(m, "parallelLoad", 0, FALSE)

CallPulseClock ==
    /\ nops < MaxOps
    /\ \E m0 \in {Start(NoFloat)} : \E m \in {pulseClock(m0)} :
               Commit(m, "pulseClock", 0, FALSE)

CallShiftIn ==
    /\ nops < MaxOps
    /\ \E fl \in InputLevels :
           \E m0 \in {Start(fl)} : \E m \in {shiftIn(m0)} :
               Commit(m, "shiftIn", fl, TRUE)

NextHC165 ==
    \/ CallParallelLoad
    \/ CallPulseClock
    \/ CallShiftIn

SpecHC165 == InitHC165 /\ [][NextHC165]_vars

-----------------------------------------------------------------------------
\* The positions in l of the reads of the input pin, and the i-th of them.
ReadsOf(l) == {i \in 1..Len(l) : l[i].k = "digitalRead" /\ l[i].a = input}
NthRead(l, n) ==
    CHOOSE i \in ReadsOf(l) : Cardinality({j \in ReadsOf(l) : j < i}) = n - 1

\* The positions in l, strictly between lo and hi, where pin is driven to level.
WritesBetween(l, pin, level, lo, hi) ==
    {i \in (lo + 1)..(hi - 1) : l[i] = Ev("digitalWrite", pin, level)}

\* Between positions lo and hi of l, pin is driven to first once and then to
\* second once.
PulsedOnceBetween(l, pin, first, second, lo, hi) ==
    /\ Cardinality(WritesBetween(l, pin, first, lo, hi)) = 1
    /\ Cardinality(WritesBetween(l, pin, second, lo, hi)) = 1
    /\ \A i \in WritesBetween(l, pin, first, lo, hi) :
       \A j \in WritesBetween(l, pin, second, lo, hi) : i < j

\* shiftIn starts with a parallel load: SH/LD LOW then HIGH inside the window
\* in which the enable pin is held.
ShiftInLoadsFirst ==
    /\ Cardinality(ReadsOf(log)) >= 1
    /\ PulsedOnceBetween(log, shld, LOW, HIGH, 0, NthRead(log, 1))
    /\ \A i \in WritesBetween(log, shld, LOW, 0, NthRead(log, 1)) :
          /\ WritesBetween(log, enable, HIGH, 0, i) # {}
          /\ WritesBetween(log, enable, LOW, 0, i) = {}

\* shiftIn reads the input pin 8 times and returns the levels read, first
\* read in bit 7.
ShiftInReadsEightBits ==
    /\ Cardinality(ReadsOf(log)) = 8
    /\ \A n \in 1..8 : Bit(ret, 8 - n) = log[NthRead(log, n)].b
    /\ ret \in Bytes

(* C20: HC165::shiftIn() first performs a parallel load (SH/LD pulsed LOW  *)
(* then HIGH while the chip is enabled), then reads the input pin exactly  *)
(* 8 times, pulsing the clock pin HIGH then LOW once after each read, and  *)
(* returns the byte whose bit (7 - i) is the i-th value read.              *)
C20_ShiftInLoadsReadsAndClocks ==
    lastOp.name = "shiftIn" =>
        /\ ShiftInLoadsFirst
        /\ ShiftInReadsEightBits
        /\ \A n \in 1..8 :
              PulsedOnceBetween(log, clock, HIGH, LOW, NthRead(log, n),
                                IF n < 8 THEN NthRead(log, n + 1)
                                         ELSE Len(log) + 1)

-----------------------------------------------------------------------------
\* The operation that has just run drove pin to level.
DroveTo(pin, level) ==
    \E i \in 1..Len(log) : log[i] = Ev("digitalWrite", pin, level)

(* C21: after HC138 construction or setupPins(), all four pins are         *)
(* configured as outputs, each of the three select pins selA, selB and     *)
(* selC has been driven HIGH, and the enable pin has been driven LOW.      *)
C21_SetupPinsDrivesAllSelectsHigh ==
    lastOp.name \in {"HC138", "setupPins"} =>
        /\ \A p \in {selA, selB, selC, enablePin} :
              /\ p \in DOMAIN modes /\ modes[p] = OUTPUT
              /\ \E i \in 1..Len(log) : log[i] = Ev("pinMode", p, OUTPUT)
        /\ DroveTo(selA, HIGH)
        /\ DroveTo(selB, HIGH)
        /\ DroveTo(selC, HIGH)
        /\ DroveTo(enablePin, LOW)
        /\ enablePin \in DOMAIN pins /\ pins[enablePin] = LOW

====
